---- MODULE Spec2Model ----
(***************************************************************************)
(* A model of the genealogical-record engine of your-family-tree:          *)
(*   - src/family-tree-nextjs/src/lib/gedcom-parser.ts   (parseGedcomFile) *)
(*   - src/family-tree-nextjs/src/lib/use-family-data.ts (query helpers)   *)
(*   - src/unnamed/part_003                              (tree projection) *)
(*                                                                         *)
(* JavaScript strings are sequences of one-character strings, so that the  *)
(* regular expressions, trim(), split() and the date formats are computed  *)
(* character by character.  An optional property of an object is a         *)
(* sequence of length 0 (absent / undefined) or 1 (present).               *)
(***************************************************************************)
EXTENDS Integers, Sequences, FiniteSets, TLC

----------------------------------------------------------------------------
(* Characters and the JavaScript RegExp classes \d, \w, \s                 *)

Digits == <<"0", "1", "2", "3", "4", "5", "6", "7", "8", "9">>

DigitChars == {Digits[k] : k \in 1..10}

UpperChars ==
  {"A", "B", "C", "D", "E", "F", "G", "H", "I", "J", "K", "L", "M",
   "N", "O", "P", "Q", "R", "S", "T", "U", "V", "W", "X", "Y", "Z"}

LowerChars ==
  {"a", "b", "c", "d", "e", "f", "g", "h", "i", "j", "k", "l", "m",
   "n", "o", "p", "q", "r", "s", "t", "u", "v", "w", "x", "y", "z"}

WordChars == UpperChars \cup LowerChars \cup DigitChars \cup {"_"}

SpaceChars == {" ", "\t", "\n", "\r"}

(* Number.parseInt of one decimal digit *)
DigitVal(c) == (CHOOSE k \in 1..10 : Digits[k] = c) - 1

(* An optional value: absent (undefined) or present *)
None == <<>>

Some(v) == <<v>>

Has(o) == o # <<>>

Get(o) == o[1]

----------------------------------------------------------------------------
(* String primitives                                                        *)

(* length of the longest run of characters of class cls that starts at s[p] *)
RECURSIVE Run(_, _, _)
Run(s, p, cls) ==
  IF p <= Len(s) /\ s[p] \in cls THEN 1 + Run(s, p + 1, cls) ELSE 0

(* s.slice(p - 1): the suffix that starts at the 1-based position p *)
From(s, p) == IF p > Len(s) THEN <<>> ELSE SubSeq(s, p, Len(s))

(* length of the longest run of space characters that ends at s[p] *)
RECURSIVE RunBack(_, _)
RunBack(s, p) ==
  IF p >= 1 /\ s[p] \in SpaceChars THEN 1 + RunBack(s, p - 1) ELSE 0

(* String.prototype.trim *)
Trim(s) ==
  LET a == Run(s, 1, SpaceChars)
      b == RunBack(s, Len(s))
  IN  IF a >= Len(s) THEN <<>> ELSE SubSeq(s, a + 1, Len(s) - b)

(* 1-based String.prototype.indexOf(c, p - 1); 0 when c does not occur *)
RECURSIVE IndexOf(_, _, _)
IndexOf(s, c, p) ==
  IF p > Len(s) THEN 0
  ELSE IF s[p] = c THEN p
  ELSE IndexOf(s, c, p + 1)

(* parseInt(digits, 10) of a non-empty digit string *)
RECURSIVE ParseInt(_)
ParseInt(s) ==
  IF s = <<>> THEN 0
  ELSE 10 * ParseInt(SubSeq(s, 1, Len(s) - 1)) + DigitVal(s[Len(s)])

(* str.replace(/@/g, '') *)
RECURSIVE StripAt(_)
StripAt(s) ==
  IF s = <<>> THEN <<>>
  ELSE IF Head(s) = "@" THEN StripAt(Tail(s))
  ELSE <<Head(s)>> \o StripAt(Tail(s))

(* content.replace(/\r\n/g, '\n').replace(/\r/g, '\n').split('\n'):          *)
(* a line break is CR LF, a CR alone or a LF alone; BreakEnds holds the      *)
(* position of the last character of every break                            *)
BreakEnds(s) ==
  {p \in 1..Len(s) :
     \/ s[p] = "\n"
     \/ s[p] = "\r" /\ ~(p < Len(s) /\ s[p + 1] = "\n")}

(* the position of the first character of the break that ends at p *)
BreakStart(s, p) == IF s[p] = "\n" /\ p > 1 /\ s[p - 1] = "\r" THEN p - 1 ELSE p

(* the end of the k-th break; 0 for k = 0 *)
KthBreak(s, k) ==
  IF k = 0 THEN 0
  ELSE CHOOSE p \in BreakEnds(s) : Cardinality({q \in BreakEnds(s) : q <= p}) = k

(* the k-th line: from the end of break k - 1 to the start of break k *)
LineAt(s, k, n) ==
  SubSeq(s, KthBreak(s, k - 1) + 1,
         IF k > n THEN Len(s) ELSE BreakStart(s, KthBreak(s, k)) - 1)

SplitInto(s, n) == [k \in 1..(n + 1) |-> LineAt(s, k, n)]

SplitLines(s) == SplitInto(s, Cardinality(BreakEnds(s)))

----------------------------------------------------------------------------
\* The line grammar  /^(\d+)\s+(?:(@\w+@)\s+)?(\w+)(?:\s+(.*))?$/
\* applied to a trimmed line.  No class overlaps the class that follows it
\* in the pattern, so every quantifier takes its whole run.

NoMatch == [ok |-> FALSE, level |-> 0, pointer |-> <<>>, tag |-> <<>>, value |-> <<>>]

(* the optional group (?:(@\w+@)\s+)? at position p: its length, 0 if absent *)
PointerLen(s, p) ==
  IF p <= Len(s) /\ s[p] = "@"
  THEN LET w == Run(s, p + 1, WordChars)
           e == p + 1 + w
           sp == Run(s, e + 1, SpaceChars)
       IN  IF w >= 1 /\ e <= Len(s) /\ s[e] = "@" /\ sp >= 1 THEN w + 2 + sp ELSE 0
  ELSE 0

\* the optional value and the end of the line; value is match[4] ? match[4].trim() : ''
MatchValue(line, d, p, pl, w, s2) ==
  IF p + pl + w <= Len(line) /\ s2 = 0 THEN NoMatch
  ELSE [ok |-> TRUE,
        level |-> ParseInt(SubSeq(line, 1, d)),
        pointer |-> Trim(SubSeq(line, p, p + pl - 1)),
        tag |-> SubSeq(line, p + pl, p + pl + w - 1),
        value |-> Trim(From(line, p + pl + w + s2))]

(* (\w+) and the \s+ that may follow it *)
MatchTag(line, d, p, pl, w) ==
  IF w = 0 THEN NoMatch
  ELSE MatchValue(line, d, p, pl, w, Run(line, p + pl + w, SpaceChars))

(* \s+ after the level, then the optional pointer group *)
MatchSpace(line, d, s1) ==
  IF s1 = 0 THEN NoMatch
  ELSE MatchTag(line, d, d + s1 + 1, PointerLen(line, d + s1 + 1),
                Run(line, d + s1 + 1 + PointerLen(line, d + s1 + 1), WordChars))

(* (\d+) *)
MatchDigits(line, d) ==
  IF d = 0 THEN NoMatch ELSE MatchSpace(line, d, Run(line, d + 1, SpaceChars))

(* line.match(...) on the trimmed line *)
MatchLine(line) == MatchDigits(line, Run(line, 1, DigitChars))

(* value.match(/@([^@]+)@/): group 1 of the first match, None without one *)
RECURSIVE RefAt(_, _)
RefAt(s, p) ==
  IF p > Len(s) THEN None
  ELSE IF s[p] = "@" /\ p + 1 <= Len(s) /\ s[p + 1] # "@" /\ IndexOf(s, "@", p + 1) > 0
       THEN Some(SubSeq(s, p + 1, IndexOf(s, "@", p + 1) - 1))
  ELSE RefAt(s, p + 1)

(* value.match(/@([^@]+)@/) || pointer.match(/@([^@]+)@/) *)
OrElse(a, b) == IF Has(a) THEN a ELSE b

ExtractRef(value, pointer) == OrElse(RefAt(value, 1), RefAt(pointer, 1))

----------------------------------------------------------------------------
(* extractName                                                              *)

Unknown == <<"U", "n", "k", "n", "o", "w", "n">>

\* nameStr.match(/^([^/]*)\s*\/([^/]*)\//): the positions of the first two
\* slashes, <<0, 0>> when the pattern does not match.  [^/]* takes everything
\* before the first slash, spaces included, so \s* matches the empty string.
NameMatch(nameStr) ==
  LET a == IndexOf(nameStr, "/", 1)
      b == IF a = 0 THEN 0 ELSE IndexOf(nameStr, "/", a + 1)
  IN  IF b = 0 THEN <<0, 0>> ELSE <<a, b>>

(* the object returned when the pattern matches *)
NameRecord(given, surname) ==
  [fullName |-> Trim(given \o <<" ">> \o surname),
   given |-> Some(given),
   surname |-> Some(surname)]

(* NameFrom with the surname taken up to the end of the value *)
NameFromToEnd(nameStr, m) ==
  IF m[1] # 0
  THEN NameRecord(Trim(SubSeq(nameStr, 1, m[1] - 1)),
                  Trim(SubSeq(nameStr, m[1] + 1, Len(nameStr) - 1)))
  ELSE [fullName |-> Trim(nameStr), given |-> None, surname |-> None]

NameFrom(nameStr, m) ==
  IF m[1] # 0
  THEN NameRecord(Trim(SubSeq(nameStr, 1, m[1] - 1)),
                  Trim(SubSeq(nameStr, m[1] + 1, m[2] - 1)))
  ELSE [fullName |-> Trim(nameStr), given |-> None, surname |-> None]

extractName(nameStr) ==
  IF nameStr = <<>> THEN [fullName |-> Unknown, given |-> None, surname |-> None]
  ELSE NameFrom(nameStr, NameMatch(nameStr))

----------------------------------------------------------------------------
(* moment(str, formats, true): strict parsing against a list of formats    *)
(* (gedcom-parser.ts:68-74 and :85-104), moment.format and moment.diff     *)

MonthsShort ==
  << <<"J", "a", "n">>, <<"F", "e", "b">>, <<"M", "a", "r">>, <<"A", "p", "r">>,
     <<"M", "a", "y">>, <<"J", "u", "n">>, <<"J", "u", "l">>, <<"A", "u", "g">>,
     <<"S", "e", "p">>, <<"O", "c", "t">>, <<"N", "o", "v">>, <<"D", "e", "c">> >>

UpperSeq ==
  <<"A", "B", "C", "D", "E", "F", "G", "H", "I", "J", "K", "L", "M",
    "N", "O", "P", "Q", "R", "S", "T", "U", "V", "W", "X", "Y", "Z">>

LowerSeq ==
  <<"a", "b", "c", "d", "e", "f", "g", "h", "i", "j", "k", "l", "m",
    "n", "o", "p", "q", "r", "s", "t", "u", "v", "w", "x", "y", "z">>

(* String.prototype.toLocaleLowerCase on one character *)
LowerChar(c) ==
  IF c \in UpperChars THEN LowerSeq[CHOOSE k \in 1..26 : UpperSeq[k] = c] ELSE c

ToLower(s) == [k \in 1..Len(s) |-> LowerChar(s[k])]

(* locale.monthsParse(name, 'MMM', strict): 1..12, or 0 *)
MonthsParse(name) ==
  IF \E k \in 1..12 : ToLower(MonthsShort[k]) = ToLower(name)
  THEN CHOOSE k \in 1..12 : ToLower(MonthsShort[k]) = ToLower(name)
  ELSE 0

IsLeapYear(y) == (y % 4 = 0 /\ y % 100 # 0) \/ y % 400 = 0

DaysInMonth(y, m) ==
  IF m = 2 THEN (IF IsLeapYear(y) THEN 29 ELSE 28)
  ELSE IF m \in {4, 6, 9, 11} THEN 30
  ELSE 31

(* the formats of formatDate, as token lists *)
FormatsIn ==
  << <<"D", " ", "MMM", " ", "YYYY">>,
     <<"MMM", " ", "YYYY">>,
     <<"YYYY">>,
     <<"D", " ", "MMM">>,
     <<"MMM", " ", "D", ",", " ", "YYYY">> >>

(* the formats of calculateAge: the same, and the output format of formatDate *)
FormatsAge == Append(FormatsIn, <<"MMM", " ", "DD", ",", " ", "YYYY">>)

(* the number of characters the strict pattern of one token takes from s[p], *)
(* 0 when it does not match there:  D /^[1-9]\d?/, DD /\d\d/, YYYY /\d{4}/,   *)
(* MMM a short month name in any case, any other token itself                *)
TokenLen(tok, s, p) ==
  IF tok = "D"
  THEN (IF p <= Len(s) /\ s[p] \in DigitChars \ {"0"}
        THEN (IF p + 1 <= Len(s) /\ s[p + 1] \in DigitChars THEN 2 ELSE 1)
        ELSE 0)
  ELSE IF tok = "DD" THEN (IF Run(s, p, DigitChars) >= 2 THEN 2 ELSE 0)
  ELSE IF tok = "YYYY" THEN (IF Run(s, p, DigitChars) >= 4 THEN 4 ELSE 0)
  ELSE IF tok = "MMM"
  THEN (IF p + 2 <= Len(s) /\ MonthsParse(SubSeq(s, p, p + 2)) # 0 THEN 3 ELSE 0)
  ELSE (IF p <= Len(s) /\ s[p] = tok THEN 1 ELSE 0)

(* configFromStringAndFormat, strict: the fields parsed by the tokens from   *)
(* position p on; ok only when every token matched and no input is left over *)
RECURSIVE ParseTokens(_, _, _, _)
ParseTokens(fmt, s, p, acc) ==
  IF fmt = <<>> THEN [acc EXCEPT !.ok = (p = Len(s) + 1)]
  ELSE LET tok == Head(fmt)
           n == TokenLen(tok, s, p)
           txt == SubSeq(s, p, p + n - 1)
       IN  IF n = 0 THEN [acc EXCEPT !.ok = FALSE]
           ELSE ParseTokens(Tail(fmt), s, p + n,
                  IF tok \in {"D", "DD"} THEN [acc EXCEPT !.d = ParseInt(txt)]
                  ELSE IF tok = "YYYY" THEN [acc EXCEPT !.y = ParseInt(txt)]
                  ELSE IF tok = "MMM" THEN [acc EXCEPT !.m = MonthsParse(txt)]
                  ELSE acc)

InvalidDate == [valid |-> FALSE, y |-> 0, m |-> 0, d |-> 0]

HasDay(fmt) == \E k \in 1..Len(fmt) : fmt[k] \in {"D", "DD"}

(* configFromArray's defaults (a missing year is the current year when the   *)
(* month is given, a missing month January, a missing day 1) and             *)
(* checkOverflow on the day of the month                                     *)
CheckParsed(r, y, m, d) ==
  IF r.ok /\ d >= 1 /\ d <= DaysInMonth(y, m)
  THEN [valid |-> TRUE, y |-> y, m |-> m, d |-> d]
  ELSE InvalidDate

WithDefaults(fmt, r, today) ==
  CheckParsed(r,
              IF r.y = -1 THEN today.y ELSE r.y,
              IF r.m = 0 THEN 1 ELSE r.m,
              IF HasDay(fmt) THEN r.d ELSE 1)

(* one format of the list *)
ParseFormat(fmt, s, today) ==
  WithDefaults(fmt, ParseTokens(fmt, s, 1, [ok |-> TRUE, y |-> -1, m |-> 0, d |-> 0]), today)

(* configFromStringAndArray: the first format that gives a valid date wins *)
RECURSIVE Moment(_, _, _)
FirstValid(r, s, rest, today) == IF r.valid THEN r ELSE Moment(s, rest, today)

Moment(s, formats, today) ==
  IF formats = <<>> THEN InvalidDate
  ELSE FirstValid(ParseFormat(Head(formats), s, today), s, Tail(formats), today)

(* zeroFill(n, width) *)
RECURSIVE ZeroFill(_, _)
ZeroFill(n, width) ==
  IF width = 0 THEN <<>>
  ELSE ZeroFill(n \div 10, width - 1) \o <<Digits[(n % 10) + 1]>>

(* parsed.format('MMM DD, YYYY') *)
FormatMoment(dt) ==
  MonthsShort[dt.m] \o <<" ">> \o ZeroFill(dt.d, 2) \o <<",", " ">> \o ZeroFill(dt.y, 4)

(* parsed.isValid() ? parsed.format('MMM DD, YYYY') : dateStr *)
FormatOrRaw(parsed, dateStr) ==
  IF parsed.valid THEN Some(FormatMoment(parsed)) ELSE Some(dateStr)

formatDate(dateStr, today) ==
  IF dateStr = <<>> THEN None
  ELSE FormatOrRaw(Moment(dateStr, FormatsIn, today), dateStr)

Min(a, b) == IF a <= b THEN a ELSE b

(* endDate.diff(birth, 'years'): monthDiff / 12, truncated towards zero.     *)
(* K whole months lie between the two month fields; monthDiff adds a         *)
(* fraction in [0, 1) or subtracts one, depending on the days of the month.  *)
DiffYears(e, b) ==
  LET K == (e.y - b.y) * 12 + (e.m - b.m)
  IN  IF e.d >= b.d
      THEN (IF K >= 0 THEN K \div 12
            ELSE IF Min(e.d, DaysInMonth(b.y, b.m)) = b.d THEN 0 - ((0 - K) \div 12)
            ELSE 0 - ((0 - K - 1) \div 12))
      ELSE (IF Min(b.d, DaysInMonth(e.y, e.m)) = e.d
            THEN (IF K >= 0 THEN K \div 12 ELSE 0 - ((0 - K) \div 12))
            ELSE IF K >= 1 THEN (K - 1) \div 12
            ELSE 0 - ((0 - K) \div 12))

(* gedcom-parser.ts:94-109 *)
(* AgeBetween with zero for a date that does not parse *)
AgeOrZero(birth, endDate) ==
  IF ~birth.valid THEN Some(0)
  ELSE IF ~endDate.valid THEN Some(0)
  ELSE Some(DiffYears(endDate, birth))

AgeBetween(birth, endDate) ==
  IF ~birth.valid THEN None
  ELSE IF ~endDate.valid THEN None
  ELSE Some(DiffYears(endDate, birth))

(* birthDate and deathDate are optional strings; today stands for moment() *)
calculateAge(birthDate, deathDate, today) ==
  IF ~Has(birthDate) \/ Get(birthDate) = <<>> THEN None
  ELSE AgeBetween(Moment(Get(birthDate), FormatsAge, today),
                  IF Has(deathDate) /\ Get(deathDate) # <<>>
                  THEN Moment(Get(deathDate), FormatsAge, today)
                  ELSE [valid |-> TRUE, y |-> today.y, m |-> today.m, d |-> today.d])

----------------------------------------------------------------------------
(* The tags parseGedcomFile compares against                                *)

INDI == <<"I", "N", "D", "I">>

FAM == <<"F", "A", "M">>

NAME == <<"N", "A", "M", "E">>

SEX == <<"S", "E", "X">>

BIRT == <<"B", "I", "R", "T">>

DEAT == <<"D", "E", "A", "T">>

BURI == <<"B", "U", "R", "I">>

FAMC == <<"F", "A", "M", "C">>

FAMS == <<"F", "A", "M", "S">>

HUSB == <<"H", "U", "S", "B">>

WIFE == <<"W", "I", "F", "E">>

CHIL == <<"C", "H", "I", "L">>

MARR == <<"M", "A", "R", "R">>

DATE == <<"D", "A", "T", "E">>

PLAC == <<"P", "L", "A", "C">>

----------------------------------------------------------------------------
(* parseGedcomFile: the record assembler (gedcom-parser.ts:126-302)         *)

(* { id, name: { fullName: 'Unknown' } } *)
NewIndividual(id) ==
  [id |-> id,
   name |-> [fullName |-> Unknown, given |-> None, surname |-> None],
   sex |-> None, birth |-> None, death |-> None, burial |-> None,
   age |-> None, alive |-> None,
   families |-> None, parents |-> None, spouse |-> None, children |-> None]

(* { id, children: [] } *)
NewFamily(id) ==
  [id |-> id, husband |-> None, wife |-> None, children |-> <<>>, marriage |-> None]

(* {} assigned to an event property *)
NewEvent == [date |-> None, place |-> None]

NullRecord == [arr |-> "null", idx |-> 0]

(* let currentRecord = null, currentLevel = -1, currentTag = '', currentEvent = null *)
InitAsm ==
  [individuals |-> <<>>, families |-> <<>>,
   currentRecord |-> NullRecord, currentLevel |-> -1,
   currentTag |-> <<>>, currentEvent |-> "null", threw |-> FALSE]

(* level 0: a new record (gedcom-parser.ts:155-203) *)
LevelZero(st, pointer, tag, value) ==
  LET id == StripAt(pointer)
      base == [st EXCEPT !.currentLevel = 0, !.currentEvent = "null"]
  IN  IF tag = INDI
      THEN [base EXCEPT !.individuals = Append(@, NewIndividual(id)),
                        !.currentRecord = [arr |-> "individuals", idx |-> Len(st.individuals) + 1],
                        !.currentTag = tag]
      ELSE IF pointer # <<>> /\ value = INDI
      THEN [base EXCEPT !.individuals = Append(@, NewIndividual(id)),
                        !.currentRecord = [arr |-> "individuals", idx |-> Len(st.individuals) + 1],
                        !.currentTag = value]
      ELSE IF tag = FAM
      THEN [base EXCEPT !.families = Append(@, NewFamily(id)),
                        !.currentRecord = [arr |-> "families", idx |-> Len(st.families) + 1],
                        !.currentTag = tag]
      ELSE IF pointer # <<>> /\ value = FAM
      THEN [base EXCEPT !.families = Append(@, NewFamily(id)),
                        !.currentRecord = [arr |-> "families", idx |-> Len(st.families) + 1],
                        !.currentTag = value]
      ELSE [base EXCEPT !.currentRecord = NullRecord, !.currentTag = <<>>]

(* currentRecord[currentEvent].date = formatDate(value) / .place = value *)
SetEventField(rec, event, tag, value, today) ==
  IF tag = DATE
  THEN [rec EXCEPT ![event] = Some([Get(@) EXCEPT !.date = formatDate(value, today)])]
  ELSE IF tag = PLAC
  THEN [rec EXCEPT ![event] = Some([Get(@) EXCEPT !.place = Some(value)])]
  ELSE rec

(* rec.list = rec.list || []; rec.list.push(ref) *)
Push(list, ref) == Some(Append(IF Has(list) THEN Get(list) ELSE <<>>, ref))

(* level 1 inside an individual (gedcom-parser.ts:208-246) *)
IndividualLevelOne(rec, pointer, tag, value) ==
  LET ref == ExtractRef(value, pointer)
  IN  IF tag = NAME THEN [rec EXCEPT !.name = extractName(value)]
      ELSE IF tag = SEX THEN [rec EXCEPT !.sex = Some(value)]
      ELSE IF tag = BIRT THEN [rec EXCEPT !.birth = Some(NewEvent)]
      ELSE IF tag = DEAT THEN [rec EXCEPT !.death = Some(NewEvent)]
      ELSE IF tag = BURI THEN [rec EXCEPT !.burial = Some(NewEvent)]
      ELSE IF tag = FAMC /\ Has(ref) THEN [rec EXCEPT !.parents = Push(@, Get(ref))]
      ELSE IF tag = FAMS /\ Has(ref) THEN [rec EXCEPT !.families = Push(@, Get(ref))]
      ELSE rec

IndividualEvent(tag) ==
  IF tag = BIRT THEN "birth"
  ELSE IF tag = DEAT THEN "death"
  ELSE IF tag = BURI THEN "burial"
  ELSE "null"

(* level 1 inside a family (gedcom-parser.ts:260-289) *)
FamilyLevelOne(rec, pointer, tag, value) ==
  LET ref == ExtractRef(value, pointer)
  IN  IF tag = HUSB /\ Has(ref) THEN [rec EXCEPT !.husband = ref]
      ELSE IF tag = WIFE /\ Has(ref) THEN [rec EXCEPT !.wife = ref]
      ELSE IF tag = CHIL /\ Has(ref) THEN [rec EXCEPT !.children = Append(@, Get(ref))]
      ELSE IF tag = MARR THEN [rec EXCEPT !.marriage = Some(NewEvent)]
      ELSE rec

FamilyEvent(tag) == IF tag = MARR THEN "marriage" ELSE "null"

(* level 2 under an event; writing a property of an event object the       *)
(* record does not have is a TypeError                                      *)
LevelTwo(st, cr, tag, value, today) ==
  IF tag \in {DATE, PLAC} /\ ~Has(st[cr.arr][cr.idx][st.currentEvent])
  THEN [st EXCEPT !.threw = TRUE]
  ELSE [st EXCEPT ![cr.arr][cr.idx] = SetEventField(@, st.currentEvent, tag, value, today)]

(* Nested with a level-1 line that closes the sub-event only when it opens  *)
(* another                                                                  *)
NestedKeepsEvent(st, cr, level, pointer, tag, value, today) ==
  IF st.currentTag = INDI
  THEN (IF level = 1
        THEN [st EXCEPT ![cr.arr][cr.idx] = IndividualLevelOne(@, pointer, tag, value),
                        !.currentEvent = IF IndividualEvent(tag) = "null" THEN @
                                         ELSE IndividualEvent(tag)]
        ELSE IF level = 2 /\ st.currentEvent # "null"
        THEN LevelTwo(st, cr, tag, value, today)
        ELSE st)
  ELSE IF st.currentTag = FAM
  THEN (IF level = 1
        THEN [st EXCEPT ![cr.arr][cr.idx] = FamilyLevelOne(@, pointer, tag, value),
                        !.currentEvent = IF FamilyEvent(tag) = "null" THEN @
                                         ELSE FamilyEvent(tag)]
        ELSE IF level = 2 /\ st.currentEvent # "null"
        THEN LevelTwo(st, cr, tag, value, today)
        ELSE st)
  ELSE st

(* nested levels (gedcom-parser.ts:205-301) *)
Nested(st, cr, level, pointer, tag, value, today) ==
  IF st.currentTag = INDI
  THEN (IF level = 1
        THEN [st EXCEPT ![cr.arr][cr.idx] = IndividualLevelOne(@, pointer, tag, value),
                        !.currentEvent = IndividualEvent(tag)]
        ELSE IF level = 2 /\ st.currentEvent # "null"
        THEN LevelTwo(st, cr, tag, value, today)
        ELSE st)
  ELSE IF st.currentTag = FAM
  THEN (IF level = 1
        THEN [st EXCEPT ![cr.arr][cr.idx] = FamilyLevelOne(@, pointer, tag, value),
                        !.currentEvent = FamilyEvent(tag)]
        ELSE IF level = 2 /\ st.currentEvent # "null"
        THEN LevelTwo(st, cr, tag, value, today)
        ELSE st)
  ELSE st

(* a line that is blank after trim(), or that the line grammar rejects *)
SkippedLine(rawLine) == Trim(rawLine) = <<>> \/ ~MatchLine(Trim(rawLine)).ok

(* the body of the loop once the line has matched (gedcom-parser.ts:149-301) *)
Dispatch(st, m, today) ==
  IF ~m.ok THEN st
  ELSE IF m.level = 0 THEN LevelZero(st, m.pointer, m.tag, m.value)
  ELSE IF st.currentRecord # NullRecord
  THEN Nested(st, st.currentRecord, m.level, m.pointer, m.tag, m.value, today)
  ELSE st

(* ProcessLine with a skipped line that ends the current sub-event *)
ProcessLineEndsEvent(st, rawLine, today) ==
  IF SkippedLine(rawLine) THEN [st EXCEPT !.currentEvent = "null"]
  ELSE Dispatch(st, MatchLine(Trim(rawLine)), today)

(* one iteration of the loop over the lines (gedcom-parser.ts:135-302) *)
ProcessLine(st, rawLine, today) ==
  IF Trim(rawLine) = <<>> THEN st
  ELSE Dispatch(st, MatchLine(Trim(rawLine)), today)

----------------------------------------------------------------------------
(* parseGedcomFile: derivation and linking (gedcom-parser.ts:304-343)       *)

(* event?.date *)
EventDate(event) == IF Has(event) THEN Get(event).date ELSE None

(* the truthiness of an optional string *)
Truthy(o) == Has(o) /\ Get(o) # <<>>

(* DeriveOne with alive decided by the death event instead of its date *)
DeriveOneByEvent(individual, today) ==
  [individual EXCEPT
     !.age = calculateAge(EventDate(individual.birth), EventDate(individual.death), today),
     !.alive = Some(~Has(individual.death))]

(* the body of individuals.forEach (gedcom-parser.ts:305-308) *)
DeriveOne(individual, today) ==
  [individual EXCEPT
     !.age = calculateAge(EventDate(individual.birth), EventDate(individual.death), today),
     !.alive = Some(~Truthy(EventDate(individual.death)))]

DeriveAll(inds, today) == [k \in 1..Len(inds) |-> DeriveOne(inds[k], today)]

(* individuals.findIndex(i => i.id === id) + 1: 0 when no record has the id *)
RECURSIVE FindFrom(_, _, _)
FindFrom(inds, id, k) ==
  IF k > Len(inds) THEN 0
  ELSE IF inds[k].id = id THEN k
  ELSE FindFrom(inds, id, k + 1)

Includes(list, x) == \E k \in 1..Len(list) : list[k] = x

(* for (const childId of children) if (!list.includes(childId)) list.push(childId) *)
RECURSIVE PushNew(_, _)
PushNew(list, children) ==
  IF children = <<>> THEN list
  ELSE PushNew(IF Includes(list, Head(children)) THEN list ELSE Append(list, Head(children)),
               Tail(children))

(* LinkPartner that replaces the children by those of the family at hand *)
LinkPartnerReplaces(inds, who, other, children) ==
  LET k == IF Truthy(who) THEN FindFrom(inds, Get(who), 1) ELSE 0
  IN  IF k = 0 THEN inds
      ELSE LET spouse0 == IF Has(inds[k].spouse) THEN Get(inds[k].spouse) ELSE <<>>
               spouse1 == IF Truthy(other) /\ ~Includes(spouse0, Get(other))
                          THEN Append(spouse0, Get(other)) ELSE spouse0
           IN  [inds EXCEPT ![k].spouse = Some(spouse1),
                            ![k].children = Some(PushNew(<<>>, children))]

(* one partner of one family (gedcom-parser.ts:312-326 and :328-342) *)
LinkPartner(inds, who, other, children) ==
  LET k == IF Truthy(who) THEN FindFrom(inds, Get(who), 1) ELSE 0
  IN  IF k = 0 THEN inds
      ELSE LET spouse0 == IF Has(inds[k].spouse) THEN Get(inds[k].spouse) ELSE <<>>
               spouse1 == IF Truthy(other) /\ ~Includes(spouse0, Get(other))
                          THEN Append(spouse0, Get(other)) ELSE spouse0
               children0 == IF Has(inds[k].children) THEN Get(inds[k].children) ELSE <<>>
           IN  [inds EXCEPT ![k].spouse = Some(spouse1),
                            ![k].children = Some(PushNew(children0, children))]

(* LinkFamily that links a partner only in the first family that names it *)
LinkFamilyOnce(inds, family) ==
  LET Fresh(who) == IF Truthy(who) /\ FindFrom(inds, Get(who), 1) # 0
                    THEN ~Has(inds[FindFrom(inds, Get(who), 1)].spouse) ELSE FALSE
  IN  LinkPartner(LinkPartner(inds, IF Fresh(family.husband) THEN family.husband ELSE None,
                              family.wife, family.children),
                  IF Fresh(family.wife) THEN family.wife ELSE None,
                  family.husband, family.children)

(* the body of the loop over the families (gedcom-parser.ts:311-343) *)
LinkFamily(inds, family) ==
  LinkPartner(LinkPartner(inds, family.husband, family.wife, family.children),
              family.wife, family.husband, family.children)

RECURSIVE LinkAll(_, _, _)
LinkAll(inds, fams, k) ==
  IF k > Len(fams) THEN inds
  ELSE LinkAll(LinkFamily(inds, fams[k]), fams, k + 1)

----------------------------------------------------------------------------
(* parseGedcomFile as a function of its argument                            *)

(* { individuals: [], families: [] } *)
EmptyData == [individuals |-> <<>>, families |-> <<>>]

(* a JavaScript value handed to parseGedcomFile: its typeof and its text *)
StringValue(s) == [type |-> "string", val |-> s]

(* !gedcomContent || typeof gedcomContent !== 'string' (gedcom-parser.ts:115) *)
InvalidContent(content) ==
  \/ content.type \in {"undefined", "null"}
  \/ content.type = "string" /\ content.val = <<>>
  \/ content.type = "number" /\ content.val = <<"0">>
  \/ content.type # "string"

RECURSIVE FoldLines(_, _, _, _)
FoldLines(st, ls, k, today) ==
  IF k > Len(ls) \/ st.threw THEN st
  ELSE FoldLines(ProcessLine(st, ls[k], today), ls, k + 1, today)

(* gedcom-parser.ts:304-346, or the catch block (gedcom-parser.ts:347-350) *)
Finish(st, today) ==
  IF st.threw THEN EmptyData
  ELSE [individuals |-> LinkAll(DeriveAll(st.individuals, today), st.families, 1),
        families |-> st.families]

parseGedcomFile(content, today) ==
  IF InvalidContent(content) THEN EmptyData
  ELSE Finish(FoldLines(InitAsm, SplitLines(content.val), 1, today), today)

----------------------------------------------------------------------------
(* Query helpers (use-family-data.ts:57-95)                                 *)

(* individuals.find(individual => individual.id === id) *)
getIndividualById(inds, id) ==
  IF FindFrom(inds, id, 1) = 0 THEN None ELSE Some(inds[FindFrom(inds, id, 1)])

(* Resolve without .filter(Boolean): an id without a record gives a record  *)
(* made up for it                                                           *)
RECURSIVE ResolveUnfiltered(_, _)
ResolveUnfiltered(inds, ids) ==
  IF ids = <<>> THEN <<>>
  ELSE <<IF Has(getIndividualById(inds, Head(ids)))
         THEN Get(getIndividualById(inds, Head(ids)))
         ELSE NewIndividual(Head(ids))>>
         \o ResolveUnfiltered(inds, Tail(ids))

(* ids.map(id => getIndividualById(individuals, id)).filter(Boolean) *)
RECURSIVE Resolve(_, _)
Resolve(inds, ids) ==
  IF ids = <<>> THEN <<>>
  ELSE getIndividualById(inds, Head(ids)) \o Resolve(inds, Tail(ids))

(* families.find(f => f.id === id) + 1 *)
RECURSIVE FindFamily(_, _, _)
FindFamily(fams, id, k) ==
  IF k > Len(fams) THEN 0
  ELSE IF fams[k].id = id THEN k
  ELSE FindFamily(fams, id, k + 1)

(* [family.husband, family.wife].filter(Boolean) *)
ParentIds(family) ==
  (IF Truthy(family.husband) THEN family.husband ELSE <<>>)
    \o (IF Truthy(family.wife) THEN family.wife ELSE <<>>)

(* individual.parents?.map(...).flat() (use-family-data.ts:74-79) *)
RECURSIVE ResolveParents(_, _, _)
ResolveParents(inds, fams, parentFamilyIds) ==
  IF parentFamilyIds = <<>> THEN <<>>
  ELSE LET k == FindFamily(fams, Head(parentFamilyIds), 1)
       IN  (IF k = 0 THEN <<>> ELSE Resolve(inds, ParentIds(fams[k])))
             \o ResolveParents(inds, fams, Tail(parentFamilyIds))

OrEmpty(list) == IF Has(list) THEN Get(list) ELSE <<>>

(* null when the id names no individual *)
getFamilyMembers(inds, fams, individualId) ==
  LET found == getIndividualById(inds, individualId)
  IN  IF ~Has(found) THEN [isNull |-> TRUE, individual |-> None,
                           parents |-> <<>>, spouses |-> <<>>, children |-> <<>>]
      ELSE [isNull |-> FALSE,
            individual |-> found,
            parents |-> ResolveParents(inds, fams, OrEmpty(Get(found).parents)),
            spouses |-> Resolve(inds, OrEmpty(Get(found).spouse)),
            children |-> Resolve(inds, OrEmpty(Get(found).children))]

----------------------------------------------------------------------------
(* The tree projection (convertToTreeData)                                  *)
(*                                                                          *)
(* A node holds name, relationship, individualData (the position of the     *)
(* record in the individuals list) and children (None when the node has no  *)
(* children property).  The recursion is modelled by its call stack: one    *)
(* frame per active call, with the call's own visited set, the resolved     *)
(* spouses and children, the position in children.map and the nodes the     *)
(* finished recursive calls returned.                                       *)

(* ids.map(id => getIndividualById(individuals, id)).filter(Boolean), as    *)
(* positions in individuals                                                 *)
RECURSIVE ResolveIndex(_, _)
ResolveIndex(inds, ids) ==
  IF ids = <<>> THEN <<>>
  ELSE (IF FindFrom(inds, Head(ids), 1) = 0 THEN <<>> ELSE <<FindFrom(inds, Head(ids), 1)>>)
         \o ResolveIndex(inds, Tail(ids))

(* if (!individual || visited.has(individual.id)) return null *)
Refused(inds, k, visited) == k = 0 \/ inds[k].id \in visited

(* visited.add(individual.id) and the two lookups (part_003:189-207) *)
Enter(inds, k, visited) ==
  [individual |-> k,
   visited |-> visited \cup {inds[k].id},
   spouses |-> ResolveIndex(inds, OrEmpty(inds[k].spouse)),
   children |-> ResolveIndex(inds, OrEmpty(inds[k].children)),
   k |-> 1,
   childNodes |-> <<>>]

(* the node of the individual itself (part_003:192-197) *)
IndividualNode(inds, k, children) ==
  [name |-> inds[k].name.fullName, individualData |-> Some(k),
   relationship |-> "direct", children |-> Some(children)]

(* the leaf of the first spouse (part_003:236-240) *)
SpouseNode(inds, k) ==
  [name |-> inds[k].name.fullName, individualData |-> Some(k),
   relationship |-> "spouse", children |-> None]

(* the invisible parent of the children (part_003:224-228) *)
FamilyNode(childNodes) ==
  [name |-> <<"F", "a", "m", "i", "l", "y">>, individualData |-> None,
   relationship |-> "family-unit", children |-> Some(childNodes)]

(* the couple structure (part_003:231-243) *)
CoupleNode(inds, frame) ==
  [name |-> <<"C", "o", "u", "p", "l", "e">>, individualData |-> None,
   relationship |-> "couple",
   children |-> Some(<<IndividualNode(inds, frame.individual, <<>>),
                       SpouseNode(inds, frame.spouses[1]),
                       FamilyNode(frame.childNodes)>>)]

(* NodeOf that renders the first spouse not yet visited instead of giving   *)
(* up when the first spouse is visited                                      *)
NodeOfNextSpouse(inds, frame) ==
  LET Unvisited(k) == inds[k].id \notin frame.visited
  IN  IF SelectSeq(frame.spouses, Unvisited) # <<>>
      THEN CoupleNode(inds, [frame EXCEPT !.spouses = SelectSeq(frame.spouses, Unvisited)])
      ELSE IndividualNode(inds, frame.individual, frame.childNodes)

(* what a call returns once its children are processed (part_003:217-250) *)
NodeOf(inds, frame) ==
  IF frame.spouses # <<>> /\ inds[frame.spouses[1]].id \notin frame.visited
  THEN CoupleNode(inds, frame)
  ELSE IndividualNode(inds, frame.individual, frame.childNodes)

(* the caller's frame after a recursive call returned node *)
Resume(frame, node) ==
  [frame EXCEPT !.k = @ + 1, !.childNodes = Append(@, node)]

(* the caller's frame after a child that gave null (filtered out) *)
SkipChild(frame) == [frame EXCEPT !.k = @ + 1]

(* convertToTreeData as a function of its arguments: None for null.        *)
(* ProjectChildren is children.map(...).filter(Boolean) from the j-th child *)
(* on, every recursive call with its own copy of visited                    *)
RECURSIVE convertToTreeData(_, _, _)
RECURSIVE ProjectChildren(_, _, _, _)
RECURSIVE ProjectFrame(_, _)
ProjectFrame(inds, frame) ==
  NodeOf(inds, [frame EXCEPT
                  !.childNodes = ProjectChildren(inds, frame.children, 1, frame.visited)])

convertToTreeData(inds, k, visited) ==
  IF Refused(inds, k, visited) THEN None
  ELSE Some(ProjectFrame(inds, Enter(inds, k, visited)))

ProjectChildren(inds, children, j, visited) ==
  IF j > Len(children) THEN <<>>
  ELSE (IF inds[children[j]].id \in visited THEN <<>>
        ELSE convertToTreeData(inds, children[j], visited))
         \o ProjectChildren(inds, children, j + 1, visited)

(* DEFAULT_TREE_DATA (part_003:105-108): a name and no children; the node   *)
(* has no relationship and no individualData                                *)
DefaultTree ==
  [name |-> <<"F", "a", "m", "i", "l", "y", " ", "T", "r", "e", "e">>, individualData |-> None,
   relationship |-> "none", children |-> Some(<<>>)]

(* the virtual root over several projections (part_003:378-383) *)
VirtualRoot(forestRoots) ==
  [name |-> <<"F", "a", "m", "i", "l", "y", " ", "T", "r", "e", "e">>, individualData |-> None,
   relationship |-> "family-unit", children |-> Some(forestRoots)]

(* the positions of the individuals from position k on *)
RECURSIVE Positions(_, _)
Positions(inds, k) == IF k > Len(inds) THEN <<>> ELSE <<k>> \o Positions(inds, k + 1)

(* every individual is a root candidate *)
EveryIndividual(inds) == Positions(inds, 1)

(* data.individuals.filter(individual => !individual.parents ||             *)
(* individual.parents.length === 0), as positions (part_003:352-354)        *)
rootCandidates(inds) ==
  LET NoParents(k) == ~Has(inds[k].parents) \/ Get(inds[k].parents) = <<>>
  IN  SelectSeq(Positions(inds, 1), NoParents)

(* the orders .sort(...) can leave the candidates in (part_003:354-360):    *)
(* the comparator goes by new Date(birth.date) when both have a birth date  *)
(* and by fullName.localeCompare otherwise; what Date makes of the stored   *)
(* text and how the locale collates are not modelled, so any order is taken *)
SortedOrders(candidates) ==
  {[j \in 1..Len(candidates) |-> candidates[perm[j]]] :
     perm \in Permutations(1..Len(candidates))}

(* rootCandidates.map(root => convertToTreeData(root, individuals, new      *)
(* Set())).filter(Boolean) (part_003:373-375)                               *)
RECURSIVE ForestRoots(_, _, _)
ForestRoots(inds, roots, j) ==
  IF j > Len(roots) THEN <<>>
  ELSE convertToTreeData(inds, roots[j], {}) \o ForestRoots(inds, roots, j + 1)

(* the end of buildFullFamilyTree (part_003:378-390) *)
FullTreeOf(inds, forestRoots) ==
  IF Len(forestRoots) > 1 THEN VirtualRoot(forestRoots)
  ELSE IF Len(forestRoots) = 1 THEN forestRoots[1]
  ELSE OrElse(convertToTreeData(inds, 1, {}), Some(DefaultTree))[1]

(* buildFullFamilyTree with the candidates in the order roots (part_003:369-391) *)
buildFullFamilyTree(inds, roots) ==
  IF Len(inds) = 0 THEN DefaultTree
  ELSE FullTreeOf(inds, ForestRoots(inds, roots, 1))

----------------------------------------------------------------------------
(* useFamilyData (use-family-data.ts:6-54) and the screens of HomePage      *)
(* (page.tsx:35-73)                                                         *)

(* useState(null), useState(true), useState(null) *)
InitialHook == [data |-> None, loading |-> TRUE, error |-> None]

(* InvalidParsed that also refuses a dataset without individuals *)
InvalidParsedWhenEmpty(parsed) == parsed.isNull \/ parsed.data.individuals = <<>>

(* !parsedData || !parsedData.individuals || !parsedData.families: the two  *)
(* lists of a dataset are arrays, which are truthy also when empty          *)
InvalidParsed(parsed) == parsed.isNull

(* loadFromLocalStorage: the state of the hook once it has run, for the     *)
(* local storage store; store.window is typeof window !== 'undefined'. The  *)
(* call of parseGedcomFile returns a dataset and throws nothing             *)
loadFromLocalStorage(store, clock) ==
  IF ~store.window THEN [data |-> None, loading |-> FALSE, error |-> None]
  ELSE IF ~Has(store.item) \/ Get(store.item) = <<>>
  THEN [data |-> None, loading |-> FALSE, error |-> None]
  ELSE IF InvalidParsed([isNull |-> FALSE,
                         data |-> parseGedcomFile(StringValue(Get(store.item)), clock)])
  THEN [data |-> None, loading |-> FALSE,
        error |-> Some("Invalid GEDCOM data in local storage")]
  ELSE [data |-> Some(parseGedcomFile(StringValue(Get(store.item)), clock)),
        loading |-> FALSE, error |-> None]

(* what HomePage renders for a state of the hook (page.tsx:35-73) *)
Screen(h) ==
  IF h.loading THEN "loading"
  ELSE IF Has(h.error) THEN "error"
  ELSE IF ~Has(h.data) THEN "upload"
  ELSE "list"

----------------------------------------------------------------------------
(* The place cache and the batch geocoder: geocoding.ts (server, the cache  *)
(* is a file) and part_004 (browser, the cache is a local storage item).    *)
(* A cache is the list of the entries of cache.coordinates in insertion     *)
(* order, the order of Object.entries for keys that are not numbers         *)

(* String.prototype.includes *)
Contains(s, sub) ==
  \E p \in 0..(Len(s) - Len(sub)) : SubSeq(s, p + 1, p + Len(sub)) = sub

(* s.split(',').map(part => part.trim()) *)
CommaParts(s) ==
  LET commas == {p \in 1..Len(s) : s[p] = ","}
      n == Cardinality(commas)
      at(k) == IF k = 0 THEN 0
               ELSE IF k = n + 1 THEN Len(s) + 1
               ELSE CHOOSE p \in commas : Cardinality({q \in commas : q <= p}) = k
  IN  [k \in 1..(n + 1) |-> Trim(SubSeq(s, at(k - 1) + 1, at(k) - 1))]

(* getCoordinatesFromCache on a loaded cache: the exact key, else the first *)
(* entry one of whose comma parts contains or is contained in a comma part  *)
(* of the place, else the two generic areas, else null                      *)
getCoordinatesFromCache(cache, place) ==
  LET normalizedPlace == Trim(ToLower(place))
      exact == {k \in 1..Len(cache) : cache[k].key = normalizedPlace}
      partial ==
        {k \in 1..Len(cache) :
           \E a \in DOMAIN CommaParts(normalizedPlace),
              b \in DOMAIN CommaParts(cache[k].key) :
             \/ Contains(CommaParts(normalizedPlace)[a], CommaParts(cache[k].key)[b])
             \/ Contains(CommaParts(cache[k].key)[b], CommaParts(normalizedPlace)[a])}
  IN  IF exact # {} THEN Some(cache[CHOOSE k \in exact : TRUE].coords)
      ELSE IF partial # {}
      THEN Some(cache[CHOOSE k \in partial : \A j \in partial : k <= j].coords)
      ELSE IF Contains(normalizedPlace, <<"a", "u", "s", "t", "r", "a", "l", "i", "a">>)
              /\ ~Contains(normalizedPlace, <<",">>)
      THEN Some([lat |-> "-25.2744", lng |-> "133.7751"])
      ELSE IF Contains(normalizedPlace, <<"e", "n", "g", "l", "a", "n", "d">>)
              /\ ~Contains(normalizedPlace, <<",">>)
      THEN Some([lat |-> "52.3555", lng |-> "-1.1743"])
      ELSE None

(* cache.coordinates[place.toLowerCase().trim()] = coordinates on a loaded  *)
(* cache: an existing key keeps its place in the order                      *)
addCoordinatesToCache(cache, place, coordinates) ==
  LET normalizedPlace == Trim(ToLower(place))
  IN  IF \E k \in 1..Len(cache) : cache[k].key = normalizedPlace
      THEN [k \in 1..Len(cache) |->
              IF cache[k].key = normalizedPlace
              THEN [key |-> normalizedPlace, coords |-> coordinates]
              ELSE cache[k]]
      ELSE Append(cache, [key |-> normalizedPlace, coords |-> coordinates])

----------------------------------------------------------------------------
(* The program state                                                        *)

VARIABLES
  gedcomContent,   \* the argument of parseGedcomFile
  today,           \* the calendar date moment() returns during the call
  pc,              \* the position in parseGedcomFile
  lines, i,        \* the split text and the loop index (1-based)
  individuals, families,
  currentRecord, currentLevel, currentTag, currentEvent,
  threw,           \* an exception was thrown inside the try block
  f,               \* the index of the family being linked (1-based)
  result,          \* the value parseGedcomFile returned
  members,         \* the value the last getFamilyMembers call returned
  tpc,             \* the position of the tree projection: idle, run, built
  stack,           \* the active calls of convertToTreeData, innermost last
  tree,            \* the value the outermost convertToTreeData call returned
  calls,           \* the number of convertToTreeData calls made so far
  fullTree,        \* the value buildFullFamilyTree returned
  previous,        \* the value an earlier call on the same text returned, and its date
  storage,         \* the browser: whether window exists, the item 'gedcomContent'
  hook,            \* the state of useFamilyData: data, loading, error
  hookCall,        \* the last call that loaded the hook; "none" before the effect ran
  geoCache,        \* the entries of the place cache, in insertion order
  runs             \* the calls of batchGeocode: arguments, position, locals, history

vars ==
  <<gedcomContent, today, pc, lines, i, individuals, families,
    currentRecord, currentLevel, currentTag, currentEvent, threw, f, result, members,
    tpc, stack, tree, calls, fullTree, previous, storage, hook, hookCall,
    geoCache, runs>>

hookVars == <<storage, hook, hookCall>>

geoVars == <<geoCache, runs>>

treeVars == <<tpc, stack, tree, calls, fullTree>>

asmVars == <<individuals, families, currentRecord, currentLevel, currentTag, currentEvent, threw>>

(* the assembler's variables as one value *)
Asm ==
  [individuals |-> individuals, families |-> families,
   currentRecord |-> currentRecord, currentLevel |-> currentLevel,
   currentTag |-> currentTag, currentEvent |-> currentEvent, threw |-> threw]

SetAsm(st) ==
  /\ individuals' = st.individuals
  /\ families' = st.families
  /\ currentRecord' = st.currentRecord
  /\ currentLevel' = st.currentLevel
  /\ currentTag' = st.currentTag
  /\ currentEvent' = st.currentEvent
  /\ threw' = st.threw

(* nothing has been returned yet *)
NoResult == [returned |-> FALSE, isNull |-> FALSE, data |-> EmptyData]

Returned(data) == [returned |-> TRUE, isNull |-> FALSE, data |-> data]

(* a catch block that returns null instead of the empty data *)
RejectedNull == [returned |-> TRUE, isNull |-> TRUE, data |-> EmptyData]

(* console.error(...); return { individuals: [], families: [] }             *)
(* (gedcom-parser.ts:116-117 and :348-349)                                  *)
Rejected == Returned(EmptyData)

NoMembers == [called |-> FALSE, id |-> <<>>, value |-> getFamilyMembers(<<>>, <<>>, <<>>)]

----------------------------------------------------------------------------
(* Inputs                                                                   *)

(* lines.join(eol) *)
RECURSIVE Join(_, _)
Join(ls, eol) ==
  IF ls = <<>> THEN <<>>
  ELSE IF Len(ls) = 1 THEN ls[1]
  ELSE ls[1] \o eol \o Join(Tail(ls), eol)

(* the most lines of a text of Init *)
MaxLines == 3

(* the longest text that is also given with CR LF and CR line ends *)
MaxEolLines == 2

SeqsUpTo(S, n) == UNION {[1..k -> S] : k \in 0..n}

(* record lines, event lines, a line the grammar rejects, a blank line *)
Vocabulary ==
    {<<"0", " ", "@", "I", "1", "@", " ", "I", "N", "D", "I">>,
     <<"1", " ", "D", "E", "A", "T">>,
     <<"2", " ", "D", "A", "T", "E", " ", "1", "8", "5", "0">>,
     <<"2", " ", "P", "L", "A", "C", " ", "R", "o", "m", "e">>,
     <<"@", " ", "j", "u", "n", "k">>,
     <<" ", "\t">>,
     <<"0", " ", "H", "E", "A", "D">>}

Texts ==
  {Join(ls, <<"\n">>) : ls \in SeqsUpTo(Vocabulary, MaxLines)}
    \cup {Join(ls, eol) : ls \in SeqsUpTo(Vocabulary, MaxEolLines),
                          eol \in {<<"\r", "\n">>, <<"\r">>}}

(* a line "<level> <tag>" and a line "<level> <tag> <value>" *)
TagLine(level, tag) == <<level, " ">> \o tag

ValueLine(level, tag, value) == <<level, " ">> \o tag \o <<" ">> \o value

(* a line "<level> <tag> @<id>@" *)
RefLine(level, tag, id) == ValueLine(level, tag, <<"@">> \o id \o <<"@">>)

(* a line "0 @<id>@ <tag>" *)
RecordLine(id, tag) == <<"0", " ", "@">> \o id \o <<"@", " ">> \o tag

I1 == <<"I", "1">>

I2 == <<"I", "2">>

I3 == <<"I", "3">>

(* NAME values: the Given /Surname/ convention, its degenerate forms, and   *)
(* values without a slash-delimited group                                   *)
NameValues ==
  {<<"J", "o", "h", "n", " ", "/", "S", "m", "i", "t", "h", "/">>,
   <<"/", "S", "m", "i", "t", "h", "/">>,
   <<"J", "o", "h", "n", " ", "/", "/">>,
   <<"/", "/">>,
   <<"/", " ", "/">>,
   <<"J", "o", "h", "n">>,
   <<"J", "o", "h", "n", " ", "/", "S", "m", "i", "t", "h">>,
   <<" ", "A", "n", "n", " ", " ", "L", "e", "e", " ", "/", " ", "M", "c", " ", "C", "o", "y", " ", "/", "J", "r">>,
   <<"a", "/", "b", "/", "c", "/", "d">>}

(* an individual with a NAME line, with or without a value *)
NameTexts ==
  {Join(<<RecordLine(I1, INDI), ValueLine("1", NAME, v)>>, <<"\n">>) : v \in NameValues}
    \cup {Join(<<RecordLine(I1, INDI), TagLine("1", NAME)>>, <<"\n">>)}

(* DATE values: the five accepted shapes, values of no accepted shape, a day *)
(* the month does not have, a future date, the output shape of formatDate    *)
DateValues ==
  {<<"5", " ", "J", "A", "N", " ", "1", "8", "5", "0">>,
   <<"J", "A", "N", " ", "1", "8", "5", "0">>,
   <<"1", "8", "5", "0">>,
   <<"5", " ", "J", "A", "N">>,
   <<"J", "a", "n", " ", "5", ",", " ", "1", "8", "5", "0">>,
   <<"A", "B", "T", " ", "1", "8", "5", "0">>,
   <<"3", "1", " ", "F", "E", "B", " ", "1", "9", "0", "0">>,
   <<"2", "9", " ", "F", "E", "B">>,
   <<"1", " ", "j", "a", "n", " ", "2", "0", "3", "0">>,
   <<"J", "a", "n", " ", "0", "5", ",", " ", "1", "8", "5", "0">>}

(* the lines of an event: none, the event alone, the event with a DATE *)
EventLines(tag) ==
  {<<>>, <<TagLine("1", tag)>>, <<TagLine("1", tag), TagLine("2", DATE)>>}
    \cup {<<TagLine("1", tag), ValueLine("2", DATE, v)>> : v \in DateValues}

(* an individual with a birth and a death in every combination *)
DateTexts ==
  {Join(<<RecordLine(I1, INDI)>> \o b \o d, <<"\n">>) : b \in EventLines(BIRT), d \in EventLines(DEAT)}

(* the most FAM records of a text of Init *)
MaxFamilies == 2

(* I1 and I2 have INDI records, I3 has none *)
HusbandChoices == {None, Some(I1), Some(I3)}

WifeChoices == {None, Some(I2)}

ChildrenChoices == {<<I2>>, <<I1, I3, I1>>}

FamilyShapes ==
  {[husband |-> h, wife |-> w, children |-> c] :
     h \in HusbandChoices, w \in WifeChoices, c \in ChildrenChoices}

(* the k-th family id: F1, F2, ... *)
FamilyId(k) == <<"F", Digits[k + 1]>>

FamilyLines(k, shape) ==
  <<RecordLine(FamilyId(k), FAM)>>
    \o (IF Has(shape.husband) THEN <<RefLine("1", HUSB, Get(shape.husband))>> ELSE <<>>)
    \o (IF Has(shape.wife) THEN <<RefLine("1", WIFE, Get(shape.wife))>> ELSE <<>>)
    \o [k2 \in 1..Len(shape.children) |-> RefLine("1", CHIL, shape.children[k2])]

RECURSIVE FamiliesLines(_, _)
FamiliesLines(shapes, k) ==
  IF k > Len(shapes) THEN <<>>
  ELSE FamilyLines(k, shapes[k]) \o FamiliesLines(shapes, k + 1)

(* I2 is a child of family F1 and of a family F9 that has no record *)
IndividualLines ==
  <<RecordLine(I1, INDI),
    RecordLine(I2, INDI), RefLine("1", FAMC, FamilyId(1)), RefLine("1", FAMC, FamilyId(9))>>

FamilyTexts ==
  {Join(IndividualLines \o FamiliesLines(shapes, 1), <<"\n">>) :
     shapes \in SeqsUpTo(FamilyShapes, MaxFamilies)}

(* families among three individuals that all have a record: parents and    *)
(* children that are each other's ancestors, spouses that are each other's  *)
(* children                                                                 *)
CycleShapes ==
  {[husband |-> Some(I1), wife |-> Some(I2), children |-> <<I3>>],
   [husband |-> Some(I3), wife |-> None, children |-> <<I1>>],
   [husband |-> Some(I2), wife |-> Some(I3), children |-> <<I1, I2>>],
   [husband |-> Some(I3), wife |-> Some(I1), children |-> <<I2>>]}

CycleTexts ==
  {Join(<<RecordLine(I1, INDI), RecordLine(I2, INDI), RecordLine(I3, INDI)>>
          \o FamiliesLines(shapes, 1), <<"\n">>) :
     shapes \in SeqsUpTo(CycleShapes, MaxFamilies)}

(* an individual with a dated death *)
DeathLines == <<RecordLine(I1, INDI), TagLine("1", DEAT), ValueLine("2", DATE, <<"1", "8", "5", "0">>)>>

(* a family with a dated marriage *)
MarriageLines ==
  <<RecordLine(FamilyId(1), FAM), TagLine("1", MARR), ValueLine("2", DATE, <<"1", "8", "5", "0">>)>>

(* ls with the line x put after its first k lines *)
InsertAt(ls, k, x) == SubSeq(ls, 1, k) \o <<x>> \o SubSeq(ls, k + 1, Len(ls))

(* a line the grammar rejects, a blank line *)
SkippedLines == {<<"@", " ", "j", "u", "n", "k">>, <<" ", "\t">>}

(* a skipped line at every position of a record with an event *)
SkipTexts ==
  {Join(InsertAt(ls, k, x), <<"\n">>) :
     ls \in {DeathLines, MarriageLines}, k \in 0..3, x \in SkippedLines}

(* a line "0 <tag> @<id>@": the tag first, the id in the field after it *)
TagFirstLine(id, tag) == <<"0", " ">> \o tag \o <<" ", "@">> \o id \o <<"@">>

(* a named individual and a family with a husband, the record line written  *)
(* pointer first and tag first                                              *)
OrderTexts ==
  {Join(<<first, ValueLine("1", NAME, <<"J", "o", "h", "n", " ", "/", "S", "m", "i", "t", "h", "/">>)>>,
        <<"\n">>) : first \in {RecordLine(I1, INDI), TagFirstLine(I1, INDI)}}
    \cup {Join(<<first, RefLine("1", HUSB, I1)>>, <<"\n">>) :
            first \in {RecordLine(FamilyId(1), FAM), TagFirstLine(FamilyId(1), FAM)}}

(* SEX values: the two of the type, another letter, a word, lower case *)
SexValues == {<<"M">>, <<"F">>, <<"X">>, <<"M", "a", "l", "e">>, <<"f">>}

(* an individual with a SEX line, with or without a value *)
SexTexts ==
  {Join(<<RecordLine(I1, INDI), ValueLine("1", SEX, v)>>, <<"\n">>) : v \in SexValues}
    \cup {Join(<<RecordLine(I1, INDI), TagLine("1", SEX)>>, <<"\n">>)}

(* a couple with a child born in 1850, and datasets in which every individual names a    *)
(* parent family: one individual, and a parent with a child that is its own *)
(* grandparent                                                              *)
RootTexts ==
  {Join(<<RecordLine(I1, INDI), RecordLine(I2, INDI),
          RecordLine(I3, INDI), TagLine("1", BIRT),
          ValueLine("2", DATE, <<"5", " ", "J", "A", "N", " ", "1", "8", "5", "0">>),
          RefLine("1", FAMC, FamilyId(1))>>
          \o FamilyLines(1, [husband |-> Some(I1), wife |-> Some(I2), children |-> <<I3>>]),
        <<"\n">>),
   Join(<<RecordLine(I1, INDI), RefLine("1", FAMC, FamilyId(1))>>, <<"\n">>),
   Join(<<RecordLine(I2, INDI), RefLine("1", FAMC, FamilyId(1)),
          RecordLine(I1, INDI), RefLine("1", FAMC, FamilyId(2))>>
          \o FamilyLines(1, [husband |-> Some(I1), wife |-> None, children |-> <<I2>>])
          \o FamilyLines(2, [husband |-> Some(I2), wife |-> None, children |-> <<I1>>]),
        <<"\n">>)}

(* a level-0 line with another tag than INDI and FAM, with and without a    *)
(* pointer, with and without the value INDI or FAM, before a NAME line and  *)
(* before a HUSB line                                                       *)
OtherTagTexts ==
  {Join(<<first, second>>, <<"\n">>) :
     first \in {<<"0", " ", "@", "N", "1", "@", " ", "N", "O", "T", "E">>,
                <<"0", " ", "@", "N", "1", "@", " ", "N", "O", "T", "E", " ", "I", "N", "D", "I">>,
                <<"0", " ", "@", "N", "1", "@", " ", "N", "O", "T", "E", " ", "F", "A", "M">>,
                <<"0", " ", "N", "O", "T", "E", " ", "I", "N", "D", "I">>,
                <<"0", " ", "T", "R", "L", "R">>},
     second \in {ValueLine("1", NAME, <<"J", "o", "h", "n", " ", "/", "S", "m", "i", "t", "h", "/">>),
                 RefLine("1", HUSB, I1)}}

(* a dated death and a dated marriage with a line between the event line    *)
(* and its DATE line: another level-1 line, a deeper line, a new record     *)
ScopeTexts ==
  {Join(InsertAt(ls, 2, x), <<"\n">>) :
     ls \in {DeathLines, MarriageLines},
     x \in {ValueLine("1", SEX, <<"M">>), TagLine("1", MARR), TagLine("1", BIRT),
            RefLine("1", HUSB, I1), ValueLine("3", NAME, <<"x">>),
            <<"2", " ", "P", "L", "A", "C", " ", "R", "o", "m", "e">>,
            RecordLine(I2, INDI)}}

(* two records with the id I1, an individual I2 with FAMS and FAMC lines    *)
(* that no family names, and a family with the husband I1 and the child I2  *)
DuplicateTexts ==
  {Join(<<RecordLine(I1, INDI), RecordLine(I1, INDI),
          RecordLine(I2, INDI), RefLine("1", FAMS, FamilyId(1)), RefLine("1", FAMC, FamilyId(1))>>
          \o FamilyLines(1, [husband |-> Some(I1), wife |-> None, children |-> <<I2>>]),
        <<"\n">>)}

(* values that are not strings: undefined, null, 0, 5, {} *)
NonStrings ==
  {[type |-> "undefined", val |-> <<>>], [type |-> "null", val |-> <<>>],
   [type |-> "number", val |-> <<"0">>], [type |-> "number", val |-> <<"5">>],
   [type |-> "object", val |-> <<>>]}

Clock == [y |-> 2025, m |-> 6, d |-> 15]

InitWith(contents, clocks) ==
  /\ gedcomContent \in contents
  /\ today \in clocks
  /\ pc = "start"
  /\ lines = <<>>
  /\ i = 0
  /\ individuals = <<>>
  /\ families = <<>>
  /\ currentRecord = NullRecord
  /\ currentLevel = -1
  /\ currentTag = <<>>
  /\ currentEvent = "null"
  /\ threw = FALSE
  /\ f = 0
  /\ result = NoResult
  /\ members = NoMembers
  /\ tpc = "idle"
  /\ stack = <<>>
  /\ tree = None
  /\ calls = 0
  /\ fullTree = None
  /\ previous = None

(* the texts of Init *)
AllTexts ==
  Texts \cup SkipTexts \cup NameTexts \cup DateTexts \cup FamilyTexts \cup CycleTexts
    \cup OrderTexts \cup SexTexts \cup RootTexts \cup OtherTagTexts \cup ScopeTexts
    \cup DuplicateTexts

(* no page that uses the hook is open *)
HookUnused ==
  /\ storage = [window |-> TRUE, item |-> None]
  /\ hook = InitialHook
  /\ hookCall = "none"

(* no batch is asked for *)
GeoUnused ==
  /\ geoCache = <<>>
  /\ runs = <<>>

Init ==
  /\ HookUnused
  /\ GeoUnused
  /\ InitWith({StringValue(t) : t \in AllTexts} \cup NonStrings, {Clock})

----------------------------------------------------------------------------
(* parseGedcomFile, step by step                                            *)

(* gedcom-parser.ts:114-133: the guard, the split, the initial state *)
Start ==
  /\ pc = "start"
  /\ IF InvalidContent(gedcomContent)
     THEN /\ result' = Rejected
          /\ pc' = "done"
          /\ UNCHANGED <<lines, i>>
     ELSE /\ lines' = SplitLines(gedcomContent.val)
          /\ i' = 1
          /\ pc' = "loop"
          /\ UNCHANGED result
  /\ UNCHANGED <<geoVars, hookVars, previous, gedcomContent, today, asmVars, f, members, treeVars>>

(* gedcom-parser.ts:135-302: one line; an exception goes to the catch block *)
(* (gedcom-parser.ts:347-350)                                               *)
ReadLine ==
  /\ pc = "loop"
  /\ i <= Len(lines)
  /\ \E st \in {ProcessLine(Asm, lines[i], today)} :
       /\ SetAsm(st)
       /\ IF st.threw
          THEN result' = Rejected /\ pc' = "done"
          ELSE UNCHANGED result /\ pc' = "loop"
  /\ i' = i + 1
  /\ UNCHANGED <<geoVars, hookVars, previous, gedcomContent, today, lines, f, members, treeVars>>

(* gedcom-parser.ts:304-308 *)
Derive ==
  /\ pc = "loop"
  /\ i > Len(lines)
  /\ individuals' = DeriveAll(individuals, today)
  /\ f' = 1
  /\ pc' = "link"
  /\ UNCHANGED <<geoVars, hookVars, previous, gedcomContent, today, lines, i, families, currentRecord, currentLevel,
                 currentTag, currentEvent, threw, result, members, treeVars>>

(* gedcom-parser.ts:311-343: one family *)
Link ==
  /\ pc = "link"
  /\ f <= Len(families)
  /\ individuals' = LinkFamily(individuals, families[f])
  /\ f' = f + 1
  /\ UNCHANGED <<geoVars, hookVars, previous, gedcomContent, today, pc, lines, i, families, currentRecord, currentLevel,
                 currentTag, currentEvent, threw, result, members, treeVars>>

(* gedcom-parser.ts:345-346 *)
Return ==
  /\ pc = "link"
  /\ f > Len(families)
  /\ result' = Returned([individuals |-> individuals, families |-> families])
  /\ pc' = "done"
  /\ UNCHANGED <<geoVars, hookVars, previous, gedcomContent, today, lines, i, asmVars, f, members, treeVars>>

(* the date a later call sees *)
LaterClock == [y |-> 2026, m |-> 6, d |-> 15]

(* a second call whose arrays are those of the first call *)
RestartShared ==
  /\ pc = "done"
  /\ previous = None
  /\ previous' = Some([data |-> result.data, today |-> today])
  /\ today' \in {today, LaterClock}
  /\ pc' = "start"
  /\ lines' = <<>>
  /\ i' = 0
  /\ SetAsm([InitAsm EXCEPT !.individuals = individuals, !.families = families])
  /\ f' = 0
  /\ result' = NoResult
  /\ UNCHANGED <<geoVars, hookVars, gedcomContent, members, treeVars>>

(* a second call of parseGedcomFile on the same text, at the same date or   *)
(* later: the first call's value is kept by its caller, and the call        *)
(* starts from arrays and locals of its own (gedcom-parser.ts:113-132)      *)
Restart ==
  /\ pc = "done"
  /\ previous = None
  /\ previous' = Some([data |-> result.data, today |-> today])
  /\ today' \in {today, LaterClock}
  /\ pc' = "start"
  /\ lines' = <<>>
  /\ i' = 0
  /\ SetAsm(InitAsm)
  /\ f' = 0
  /\ result' = NoResult
  /\ UNCHANGED <<geoVars, hookVars, gedcomContent, members, treeVars>>

(* ids a caller may ask for: I1, and an id no record has *)
QueryIds == {<<"I", "1">>, <<"I", "2">>, <<"I", "3">>, <<"X", "9">>}

(* a call of getFamilyMembers on the parsed data (use-family-data.ts:70-95) *)
FamilyMembers ==
  /\ pc = "done"
  /\ result.returned
  /\ \E id \in QueryIds :
       members' = [called |-> TRUE, id |-> id,
                   value |-> getFamilyMembers(result.data.individuals, result.data.families, id)]
  /\ UNCHANGED <<geoVars, hookVars, previous, gedcomContent, today, pc, lines, i, asmVars, f, result, treeVars>>

(* a call convertToTreeData(root, data.individuals) with a fresh visited    *)
(* set, for any individual of the parsed data (part_003:184-190, :376, :392) *)
TreeStart ==
  /\ pc = "done"
  /\ tpc = "idle"
  /\ \E root \in 1..Len(result.data.individuals) :
       IF Refused(result.data.individuals, root, {})
       THEN /\ tpc' = "built"
            /\ UNCHANGED stack
       ELSE /\ tpc' = "run"
            /\ stack' = <<Enter(result.data.individuals, root, {})>>
  /\ calls' = calls + 1
  /\ UNCHANGED <<geoVars, hookVars, previous, gedcomContent, today, pc, lines, i, asmVars, f, result, members, tree, fullTree>>

(* TreeChild that hands every child a new empty set instead of a copy of    *)
(* visited                                                                  *)
TreeChildFreshVisited ==
  /\ tpc = "run"
  /\ \E top \in {stack[Len(stack)]} :
       /\ top.k <= Len(top.children)
       /\ calls' = calls + 1
       /\ stack' = Append(stack, Enter(result.data.individuals, top.children[top.k], {}))
  /\ UNCHANGED <<geoVars, hookVars, previous, gedcomContent, today, pc, lines, i, asmVars, f, result, members, tpc, tree,
                 fullTree>>

(* one step of children.map (part_003:210-215): a child already visited     *)
(* gives null, any other child is a recursive call on a copy of visited     *)
TreeChild ==
  /\ tpc = "run"
  /\ \E top \in {stack[Len(stack)]} :
       /\ top.k <= Len(top.children)
       /\ IF result.data.individuals[top.children[top.k]].id \in top.visited
          THEN /\ stack' = [stack EXCEPT ![Len(stack)] = SkipChild(top)]
               /\ UNCHANGED calls
          ELSE /\ calls' = calls + 1
               /\ IF Refused(result.data.individuals, top.children[top.k], top.visited)
                  THEN stack' = [stack EXCEPT ![Len(stack)] = SkipChild(top)]
                  ELSE stack' = Append(stack, Enter(result.data.individuals,
                                                    top.children[top.k], top.visited))
  /\ UNCHANGED <<geoVars, hookVars, previous, gedcomContent, today, pc, lines, i, asmVars, f, result, members, tpc, tree,
                 fullTree>>

(* TreeReturn with one visited set shared by all calls: what the returning  *)
(* call added is in the caller's set                                        *)
TreeReturnSharedVisited ==
  /\ tpc = "run"
  /\ \E top \in {stack[Len(stack)]} :
       /\ top.k > Len(top.children)
       /\ \E node \in {NodeOf(result.data.individuals, top)} :
            IF Len(stack) = 1
            THEN /\ tree' = Some(node)
                 /\ tpc' = "built"
                 /\ stack' = <<>>
            ELSE /\ stack' = [SubSeq(stack, 1, Len(stack) - 1)
                                EXCEPT ![Len(stack) - 1] =
                                  [Resume(@, node) EXCEPT !.visited = @ \cup top.visited]]
                 /\ UNCHANGED <<tpc, tree>>
  /\ UNCHANGED <<geoVars, hookVars, previous, gedcomContent, today, pc, lines, i, asmVars, f, result, members, calls, fullTree>>

(* the innermost call returns its node (part_003:217-250) *)
TreeReturn ==
  /\ tpc = "run"
  /\ \E top \in {stack[Len(stack)]} :
       /\ top.k > Len(top.children)
       /\ \E node \in {NodeOf(result.data.individuals, top)} :
            IF Len(stack) = 1
            THEN /\ tree' = Some(node)
                 /\ tpc' = "built"
                 /\ stack' = <<>>
            ELSE /\ stack' = [SubSeq(stack, 1, Len(stack) - 1)
                                EXCEPT ![Len(stack) - 1] = Resume(@, node)]
                 /\ UNCHANGED <<tpc, tree>>
  /\ UNCHANGED <<geoVars, hookVars, previous, gedcomContent, today, pc, lines, i, asmVars, f, result, members, calls, fullTree>>

(* the full tree of the parsed data, built while no root is chosen          *)
(* (part_003:369-394)                                                       *)
BuildFullTree ==
  /\ pc = "done"
  /\ tpc = "idle"
  /\ fullTree = None
  /\ \E roots \in SortedOrders(rootCandidates(result.data.individuals)) :
       fullTree' = Some(buildFullFamilyTree(result.data.individuals, roots))
  /\ UNCHANGED <<geoVars, hookVars, previous, gedcomContent, today, pc, lines, i, asmVars, f, result, members,
                 tpc, stack, tree, calls>>

(* a parse followed by lookups *)
Next == Start \/ ReadLine \/ Derive \/ Link \/ Return \/ FamilyMembers

Spec == Init /\ [][Next]_vars

(* a parse followed by a tree projection *)
TreeNext ==
  Start \/ ReadLine \/ Derive \/ Link \/ Return \/ TreeStart \/ TreeChild \/ TreeReturn
    \/ BuildFullTree

SpecTree == Init /\ [][TreeNext]_vars

(* a parse followed by a second parse of the same text *)
TwiceNext == Start \/ ReadLine \/ Derive \/ Link \/ Return \/ Restart

(* the texts parsed twice: short ones, those with dates and those with      *)
(* families of three individuals                                            *)
InitTwice ==
  /\ HookUnused
  /\ GeoUnused
  /\ InitWith({StringValue(t) : t \in Texts \cup DateTexts \cup CycleTexts \cup RootTexts}
                \cup NonStrings,
              {Clock})

SpecTwice == InitTwice /\ [][TwiceNext]_vars

----------------------------------------------------------------------------
(* useFamilyData in a page: the effect, refresh, clear, and the upload of   *)
(* HomePage                                                                 *)

parseVars ==
  <<gedcomContent, today, pc, lines, i, asmVars, f, result, members, treeVars, previous>>

(* texts a user uploads: nothing, lines the grammar rejects, a named        *)
(* individual                                                               *)
UploadTexts ==
  {<<>>,
   <<"@", " ", "j", "u", "n", "k", "\n", "<", "h", "t", "m", "l", ">">>,
   Join(<<RecordLine(I1, INDI),
          ValueLine("1", NAME, <<"J", "o", "h", "n", " ", "/", "S", "m", "i", "t", "h", "/">>)>>,
        <<"\n">>)}

(* useEffect(() => { loadFromLocalStorage() }) (use-family-data.ts:38-40) *)
Mount ==
  /\ hookCall = "none"
  /\ hook' = loadFromLocalStorage(storage, today)
  /\ hookCall' = "mount"
  /\ UNCHANGED <<storage, parseVars, geoVars>>

(* refresh (use-family-data.ts:42-44) *)
Refresh ==
  /\ hookCall # "none"
  /\ hook' = loadFromLocalStorage(storage, today)
  /\ hookCall' = "refresh"
  /\ UNCHANGED <<storage, parseVars, geoVars>>

(* clear (use-family-data.ts:46-51) *)
Clear ==
  /\ hookCall # "none"
  /\ storage' = [storage EXCEPT !.item = IF storage.window THEN None ELSE @]
  /\ hook' = loadFromLocalStorage(storage', today)
  /\ hookCall' = "clear"
  /\ UNCHANGED <<parseVars, geoVars>>

(* handleFileUpload once file.text() has given the text (page.tsx:15-29):   *)
(* the file input is on the upload screen and on the list screen            *)
Upload ==
  /\ hookCall # "none"
  /\ Screen(hook) \in {"upload", "list"}
  /\ \E text \in UploadTexts :
       storage' = [storage EXCEPT !.item = IF storage.window THEN Some(text) ELSE @]
  /\ hook' = loadFromLocalStorage(storage', today)
  /\ hookCall' = "upload"
  /\ UNCHANGED <<parseVars, geoVars>>

(* a page opens with any text in the local storage, with nothing in it, or  *)
(* without a window                                                         *)
InitHook ==
  /\ storage \in {[window |-> TRUE, item |-> Some(t)] :
                    t \in Texts \cup SkipTexts \cup DateTexts \cup RootTexts \cup OtherTagTexts}
                   \cup {[window |-> TRUE, item |-> None], [window |-> FALSE, item |-> None]}
  /\ hook = InitialHook
  /\ hookCall = "none"
  /\ GeoUnused
  /\ InitWith({[type |-> "undefined", val |-> <<>>]}, {Clock})

HookNext == Mount \/ Refresh \/ Clear \/ Upload

SpecHook == InitHook /\ [][HookNext]_vars

----------------------------------------------------------------------------
(* batchGeocode, one step per await; a call is a record of runs             *)

MaxPlaces == 3

Rome == <<"R", "o", "m", "e">>

ParisFR == <<"P", "a", "r", "i", "s", ",", " ", "F", "R">>

PlaceNames == {Rome, ParisFR, <<"R", "o">>, <<"A", "u", "s", "t", "r", "a", "l", "i", "a">>}

PlaceLists == UNION {[1..n -> PlaceNames] : n \in 0..MaxPlaces}

ApiKeys == {<<>>, <<" ">>, <<"k">>}

(* what the cache holds when a batch starts *)
Caches == {<<>>, <<[key |-> ToLower(Rome), coords |-> [lat |-> "41.9", lng |-> "12.5"]]>>}

(* the answers of the geocoding service to one request: a first result, an  *)
(* empty list, status 401, any other failure of fetch                       *)
ApiOutcomes ==
  {[kind |-> "found", coords |-> [lat |-> "48.9", lng |-> "2.4"]],
   [kind |-> "empty"], [kind |-> "unauthorized"], [kind |-> "error"]}

(* a call that has not started; the fields from requests on are history     *)
NewRun(side, apiKey, places) ==
  [side |-> side, apiKey |-> apiKey, places |-> places, pc |-> "idle", k |-> 1,
   success |-> 0, failed |-> <<>>, progress |-> <<>>, error |-> None,
   loaded |-> <<>>, coordinates |-> None,
   requests |-> <<>>, waited |-> TRUE, hits |-> {}, stored |-> {}]

(* NextPlace without the call of onProgress *)
NextPlaceSilent(rec) ==
  [rec EXCEPT !.k = @ + 1,
              !.pc = IF rec.k = Len(rec.places) THEN "returned" ELSE "top"]

(* the end of an iteration: onProgress?.(i + 1, places.length), i++, and    *)
(* the return when the last place is done                                   *)
NextPlace(rec) ==
  [rec EXCEPT !.progress = Append(@, <<rec.k, Len(rec.places)>>),
              !.k = @ + 1,
              !.pc = IF rec.k = Len(rec.places) THEN "returned" ELSE "top"]

(* after a request that did not throw: the 100 ms timer unless this is the  *)
(* last place                                                               *)
AfterRequest(rec) ==
  IF rec.k < Len(rec.places) THEN [rec EXCEPT !.pc = "wait"] ELSE NextPlace(rec)

(* POST (route.ts:14-26) and handleGeocodePlaces (page.tsx:214-229) up to   *)
(* the call of batchGeocode: the server refuses an empty key, the page a    *)
(* blank one, both an empty list                                            *)
StartBatch ==
  \E r \in DOMAIN runs :
    /\ runs[r].pc = "idle"
    /\ runs' = [runs EXCEPT ![r].pc =
                  IF \/ runs[r].places = <<>>
                     \/ runs[r].side = "server" /\ runs[r].apiKey = <<>>
                     \/ runs[r].side = "client" /\ Trim(runs[r].apiKey) = <<>>
                  THEN "rejected" ELSE "top"]
    /\ UNCHANGED <<geoCache, parseVars, hookVars>>

(* const existing = await getCoordinatesFromCache(place) and the branch on  *)
(* it: a hit counts, reports progress and continues                         *)
Lookup ==
  \E r \in DOMAIN runs :
    /\ runs[r].pc = "top"
    /\ runs' = [runs EXCEPT ![r] =
                  IF Has(getCoordinatesFromCache(geoCache, @.places[@.k]))
                  THEN NextPlace([@ EXCEPT !.success = @ + 1, !.hits = @ \cup {runs[r].k}])
                  ELSE [@ EXCEPT !.pc = "fetch"]]
    /\ UNCHANGED <<geoCache, parseVars, hookVars>>

(* Fetch with the browser treating 401 as the server does: the place is    *)
(* pushed to failed and the loop goes on                                    *)
FetchGoesOn ==
  \E r \in DOMAIN runs, outcome \in ApiOutcomes :
    /\ runs[r].pc = "fetch"
    /\ \E rec \in {[runs[r] EXCEPT !.requests = Append(@, [at |-> runs[r].k,
                                                           spaced |-> runs[r].waited,
                                                           kind |-> outcome.kind]),
                                   !.waited = FALSE]} :
         runs' = [runs EXCEPT ![r] =
                    IF outcome.kind = "found"
                    THEN [rec EXCEPT !.coordinates = Some(outcome.coords),
                                     !.pc = IF rec.side = "server" THEN "load" ELSE "store"]
                    ELSE AfterRequest([rec EXCEPT !.failed = Append(@, rec.places[rec.k])])]
    /\ UNCHANGED <<geoCache, parseVars, hookVars>>

(* const coords = await fetchCoordinatesFromAPI(place, apiKey) and what     *)
(* follows without an await: null is pushed to failed; 401 is null on the   *)
(* server and ends the call with an error in the browser                    *)
Fetch ==
  \E r \in DOMAIN runs, outcome \in ApiOutcomes :
    /\ runs[r].pc = "fetch"
    /\ \E rec \in {[runs[r] EXCEPT !.requests = Append(@, [at |-> runs[r].k,
                                                           spaced |-> runs[r].waited,
                                                           kind |-> outcome.kind]),
                                   !.waited = FALSE]} :
         runs' = [runs EXCEPT ![r] =
                    IF outcome.kind = "found"
                    THEN [rec EXCEPT !.coordinates = Some(outcome.coords),
                                     !.pc = IF rec.side = "server" THEN "load" ELSE "store"]
                    ELSE IF outcome.kind = "unauthorized" /\ rec.side = "client"
                    THEN [rec EXCEPT !.pc = "threw",
                                     !.error = Some("Unauthorized API key. Please check your API key.")]
                    ELSE AfterRequest([rec EXCEPT !.failed = Append(@, rec.places[rec.k])])]
    /\ UNCHANGED <<geoCache, parseVars, hookVars>>

(* the server's addCoordinatesToCache: const cache = await                  *)
(* loadGeocodingCache()                                                     *)
StoreLoad ==
  \E r \in DOMAIN runs :
    /\ runs[r].pc = "load"
    /\ runs' = [runs EXCEPT ![r].loaded = geoCache, ![r].pc = "store"]
    /\ UNCHANGED <<geoCache, parseVars, hookVars>>

(* the write of addCoordinatesToCache: on the server the cache loaded       *)
(* before is written with the new entry, in the browser load, assignment    *)
(* and setItem are one step. writeFile and setItem can fail: the exception  *)
(* reaches the catch of the loop, which pushes the place to failed          *)
StoreSave ==
  \E r \in DOMAIN runs, written \in BOOLEAN :
    /\ runs[r].pc = "store"
    /\ geoCache' =
         IF written
         THEN addCoordinatesToCache(IF runs[r].side = "server" THEN runs[r].loaded
                                    ELSE geoCache,
                                    runs[r].places[runs[r].k], Get(runs[r].coordinates))
         ELSE geoCache
    /\ runs' = [runs EXCEPT ![r] =
                  IF written
                  THEN AfterRequest([@ EXCEPT !.success = @ + 1,
                                              !.stored = @ \cup {runs[r].k}])
                  ELSE NextPlace([@ EXCEPT !.failed = Append(@, runs[r].places[runs[r].k])])]
    /\ UNCHANGED <<parseVars, hookVars>>

(* the 100 ms timer of the loop fires *)
WaitDone ==
  \E r \in DOMAIN runs :
    /\ runs[r].pc = "wait"
    /\ runs' = [runs EXCEPT ![r] = NextPlace([@ EXCEPT !.waited = TRUE])]
    /\ UNCHANGED <<geoCache, parseVars, hookVars>>

GeoNext == StartBatch \/ Lookup \/ Fetch \/ StoreLoad \/ StoreSave \/ WaitDone

(* one batch, in the browser or on the server *)
InitGeo ==
  /\ geoCache \in Caches
  /\ runs \in {<<NewRun(side, apiKey, places)>> :
                 side \in {"client", "server"}, apiKey \in ApiKeys, places \in PlaceLists}
  /\ HookUnused
  /\ InitWith({[type |-> "undefined", val |-> <<>>]}, {Clock})

SpecGeo == InitGeo /\ [][GeoNext]_vars

(* the lists of two POST requests that arrive together *)
PostLists == {<<Rome>>, <<ParisFR>>, <<Rome, ParisFR>>, <<ParisFR, Rome>>}

InitGeoTwo ==
  /\ geoCache = <<>>
  /\ runs \in {<<NewRun("server", <<"k">>, a), NewRun("server", <<"k">>, b)>> :
                 a \in PostLists, b \in PostLists}
  /\ HookUnused
  /\ InitWith({[type |-> "undefined", val |-> <<>>]}, {Clock})

SpecGeoTwo == InitGeoTwo /\ [][GeoNext]_vars

----------------------------------------------------------------------------
(* Properties                                                               *)

Done == pc = "done"

StringInput == gedcomContent.type = "string"

(* the individuals and the families of the returned data *)
Inds == result.data.individuals

Fams == result.data.families

(* C1: parseGedcomFile never throws: the call is always at a step that can  *)
(* run (the two loops stay inside their lists), and it ends by returning an *)
(* object (never null, never an exception that escapes) that holds an       *)
(* individuals list and a families list; for an empty or non-string input   *)
(* both lists are empty.                                                    *)
C1_NeverThrows ==
  /\ pc \in {"start", "loop", "link", "done"}
  /\ pc = "loop" => i \in 1..(Len(lines) + 1)
  /\ pc = "link" => f \in 1..(Len(families) + 1)
  /\ Done =>
       /\ result.returned /\ ~result.isNull
       /\ DOMAIN result.data = {"individuals", "families"}
       /\ Inds \in Seq({Inds[k] : k \in 1..Len(Inds)})
       /\ Fams \in Seq({Fams[k] : k \in 1..Len(Fams)})
       /\ (~StringInput \/ gedcomContent.val = <<>>) => result.data = EmptyData

(* a call with a non-string argument has returned *)
C1_Witness == Done /\ gedcomContent.type = "number" /\ gedcomContent.val = <<"5">>

(* the lines of the input that are neither blank nor rejected by the grammar *)
Kept(rawLine) == ~SkippedLine(rawLine)

KeptText == StringValue(Join(SelectSeq(lines, Kept), <<"\n">>))

(* the parse has returned and no lookup or projection has been made since   *)
(* (these leave result as it is)                                            *)
JustReturned == Done /\ ~members.called /\ tpc = "idle"

(* C2: blank lines and lines that do not match the line grammar are skipped *)
(* without any effect: the iteration for such a line leaves the records,    *)
(* the current record, its kind and the current sub-event as they are; the  *)
(* data a parse returns equals the data returned for the same text with     *)
(* those lines removed, and a text made only of such lines gives empty      *)
(* individuals and empty families.                                          *)
C2_SkippedLinesHaveNoEffect ==
  /\ (pc = "loop" /\ i <= Len(lines) /\ SkippedLine(lines[i])) =>
       ProcessLine(Asm, lines[i], today) = Asm
  /\ (JustReturned /\ StringInput) =>
       /\ result.data = parseGedcomFile(KeptText, today)
       /\ (\A k \in 1..Len(lines) : SkippedLine(lines[k])) => result.data = EmptyData

(* a rejected line stood between an event line and its DATE line, and the   *)
(* date was recorded                                                        *)
C2_Witness ==
  /\ Done
  /\ Len(lines) = 4
  /\ lines[2] = TagLine("1", DEAT)
  /\ SkippedLine(lines[3])
  /\ Len(Inds) = 1
  /\ Truthy(EventDate(Inds[1].death))

(* C6: after a parse no two individuals have the same id and no two         *)
(* families have the same id.                                               *)
C6_IdsUnique ==
  Done =>
    /\ \A a, b \in 1..Len(Inds) : Inds[a].id = Inds[b].id => a = b
    /\ \A a, b \in 1..Len(Fams) : Fams[a].id = Fams[b].id => a = b

(* C7: after a parse an individual is alive exactly when no death date was  *)
(* recorded for it (no DEAT event, or a DEAT event without a DATE value),   *)
(* whatever its birth date, its age and its death place are; for the texts  *)
(* of DateTexts this is decided by the lines of the death event.            *)
C7_AliveIffNoDeathDate ==
  Done =>
    /\ \A k \in 1..Len(Inds) :
         Inds[k].alive = Some(~(Has(Inds[k].death) /\ Has(Get(Inds[k].death).date)))
    /\ \A b \in EventLines(BIRT), d \in EventLines(DEAT) :
         lines = <<RecordLine(I1, INDI)>> \o b \o d =>
           /\ Len(Inds) = 1
           /\ Inds[1].alive = Some(Len(d) < 2 \/ d[2] = TagLine("2", DATE))

(* a death with a place and no date: the individual is alive *)
C7_Witness ==
  /\ Done
  /\ Len(Inds) = 1
  /\ Has(Inds[1].death)
  /\ Has(Get(Inds[1].death).place)
  /\ Inds[1].alive = Some(TRUE)

(* C10: after a parse every individual's name.fullName is a non-empty       *)
(* string.                                                                  *)
C10_FullNamePopulated ==
  Done => \A k \in 1..Len(Inds) : Inds[k].name.fullName # <<>>

(* the ids of the individuals whose calls are active, outermost first *)
StackIds == [k \in 1..Len(stack) |-> Inds[stack[k].individual].id]

(* no two entries of a list are equal *)
Distinct(list) == \A a, b \in 1..Len(list) : list[a] = list[b] => a = b

(* the individual a node expands: the person of a direct node that is not   *)
(* the first child of a couple node, and the person of a couple node        *)
Expanded(node) ==
  IF node.relationship = "couple"
  THEN <<Inds[Get(Get(node.children)[1].individualData)].id>>
  ELSE IF node.relationship = "direct" THEN <<Inds[Get(node.individualData)].id>>
  ELSE <<>>

(* the nodes below which the descent of a node continues *)
Descent(node) ==
  IF node.relationship = "couple" THEN Get(Get(node.children)[3].children)
  ELSE OrEmpty(node.children)

(* the lists of expanded individuals along the root-to-leaf paths of a node *)
RECURSIVE DescentPaths(_)
DescentPaths(node) ==
  IF Descent(node) = <<>> THEN {Expanded(node)}
  ELSE UNION {{Expanded(node) \o path : path \in DescentPaths(Descent(node)[k])} :
                k \in 1..Len(Descent(node))}

(* the number of paths without a repeated individual that leave one of n    *)
(* individuals: the most calls one projection can make                      *)
RECURSIVE SimplePaths(_)
SimplePaths(n) == IF n <= 1 THEN n ELSE 1 + (n - 1) * SimplePaths(n - 1)

(* C3: convertToTreeData terminates for every dataset a parse returns,      *)
(* cyclic ones included: the active calls are for pairwise different        *)
(* individuals, so the recursion is never deeper than N, the number of      *)
(* calls is bounded by the number of repetition-free paths, a running call  *)
(* always has a step to take, and in the returned tree no root-to-leaf path *)
(* expands an individual twice (at most N expansions on a path).            *)
C3_ProjectionTerminates ==
  /\ tpc \in {"idle", "run", "built"}
  /\ tpc = "run" =>
       /\ stack # <<>>
       /\ \A k \in 1..Len(stack) : stack[k].k \in 1..(Len(stack[k].children) + 1)
  /\ Distinct(StackIds)
  /\ Len(stack) <= Len(Inds)
  /\ calls <= SimplePaths(Len(Inds))
  /\ tpc = "built" =>
       /\ stack = <<>>
       /\ Has(tree)
       /\ \A path \in DescentPaths(Get(tree)) : Distinct(path) /\ Len(path) <= Len(Inds)

(* a projection of a cyclic dataset has returned: the root's child has the  *)
(* root among its own children, and appears below the root in the tree      *)
C3_Witness ==
  /\ tpc = "built"
  /\ \E path \in DescentPaths(Get(tree)) :
       /\ Len(path) >= 2
       /\ \E a, b \in 1..Len(Inds) :
            /\ Inds[a].id = path[1]
            /\ Inds[b].id = path[2]
            /\ Includes(OrEmpty(Inds[a].children), path[2])
            /\ Includes(OrEmpty(Inds[b].children), path[1])

(* the values that occur in a list *)
Range(list) == {list[k] : k \in 1..Len(list)}

(* the position of the first x in list *)
FirstAt(list, x) == CHOOSE k \in 1..Len(list) : list[k] = x /\ \A j \in 1..(k - 1) : list[j] # x

(* short is list without the repetitions, in the order of first occurrence *)
IsDeduplicated(short, list) ==
  /\ Distinct(short)
  /\ Range(short) = Range(list)
  /\ \A a, b \in 1..Len(short) : a < b => FirstAt(list, short[a]) < FirstAt(list, short[b])

(* the first record with the id, the one every lookup by id gives *)
RecordOf(id) == Inds[FindFrom(Inds, id, 1)]

Exists(id) == \E k \in 1..Len(Inds) : Inds[k].id = id

(* the families with a husband and a wife that both have a record *)
Couples ==
  {k \in 1..Len(Fams) :
     /\ Truthy(Fams[k].husband) /\ Exists(Get(Fams[k].husband))
     /\ Truthy(Fams[k].wife) /\ Exists(Get(Fams[k].wife))}

(* the families that name the id as husband or as wife *)
FamiliesOf(id) == {k \in 1..Len(Fams) : Fams[k].husband = Some(id) \/ Fams[k].wife = Some(id)}

SpousesMutual(k) ==
  /\ Includes(OrEmpty(RecordOf(Get(Fams[k].husband)).spouse), Get(Fams[k].wife))
  /\ Includes(OrEmpty(RecordOf(Get(Fams[k].wife)).spouse), Get(Fams[k].husband))

(* C4 as stated: for every family whose husband and wife both exist, each    *)
(* is in the other's spouse list and the children of both equal the         *)
(* family's deduplicated child list.                                        *)
C4_ChildrenEqualFamilyList ==
  Done =>
    \A k \in Couples :
      /\ SpousesMutual(k)
      /\ IsDeduplicated(OrEmpty(RecordOf(Get(Fams[k].husband)).children), Fams[k].children)
      /\ IsDeduplicated(OrEmpty(RecordOf(Get(Fams[k].wife)).children), Fams[k].children)

(* the children of the partner id of family k: the children of all the      *)
(* families that name id as a partner, each once; those of family k alone,  *)
(* in its order, when no other family names id                              *)
ChildrenLinked(k, id) ==
  /\ Distinct(OrEmpty(RecordOf(id).children))
  /\ Range(OrEmpty(RecordOf(id).children)) = UNION {Range(Fams[j].children) : j \in FamiliesOf(id)}
  /\ FamiliesOf(id) = {k} => IsDeduplicated(OrEmpty(RecordOf(id).children), Fams[k].children)

(* C4, amended: for every family whose husband H and wife W both exist (as  *)
(* the first record with the id), H.spouse contains W's id, W.spouse         *)
(* contains H's id, and H.children and W.children each hold every child of  *)
(* the family once: they are the duplicate-free union of the child lists of *)
(* all families naming that individual as husband or wife, and equal the    *)
(* family's deduplicated child list when no other family names it.          *)
C4_LinkingSymmetry ==
  Done =>
    \A k \in Couples :
      /\ SpousesMutual(k)
      /\ ChildrenLinked(k, Get(Fams[k].husband))
      /\ ChildrenLinked(k, Get(Fams[k].wife))

(* a husband of two families with different children, linked to both *)
C4_Witness ==
  /\ Done
  /\ Couples # {}
  /\ \E k \in Couples :
       /\ Cardinality(FamiliesOf(Get(Fams[k].husband))) = 2
       /\ Len(OrEmpty(RecordOf(Get(Fams[k].husband)).children)) = 3
       /\ Range(Fams[k].children) # Range(OrEmpty(RecordOf(Get(Fams[k].husband)).children))

(* the records among ids, in the order of ids *)
Existing(ids) == SelectSeq(ids, Exists)

(* the ids of a list of records *)
IdsOf(records) == [k \in 1..Len(records) |-> records[k].id]

(* the husbands and wives of the families with a record among familyIds *)
PartnersOf(familyIds) ==
  {id \in Range(IdsOf(Inds)) :
     \E k \in 1..Len(Fams) :
       /\ Includes(familyIds, Fams[k].id)
       /\ Fams[k].husband = Some(id) \/ Fams[k].wife = Some(id)}

(* C5: ids without a record never make the linker or a lookup fail: every   *)
(* parse of a text links all its families and returns them, and             *)
(* getFamilyMembers for an existing individual returns an object whose      *)
(* parents, spouses and children are records of the dataset only: the       *)
(* spouses and children that have a record, in order, and the husbands and  *)
(* wives of the parent families that have a record; ids and family ids that *)
(* do not resolve are absent.                                               *)
C5_DanglingReferences ==
  /\ (Done /\ StringInput /\ gedcomContent.val # <<>>) =>
       /\ ~threw
       /\ f = Len(families) + 1
       /\ Fams = families
       /\ Len(Inds) = Len(individuals)
  /\ (members.called /\ Exists(members.id)) =>
       /\ ~members.value.isNull
       /\ members.value.individual = Some(RecordOf(members.id))
       /\ Range(members.value.parents) \cup Range(members.value.spouses)
            \cup Range(members.value.children) \subseteq Range(Inds)
       /\ IdsOf(members.value.spouses) = Existing(OrEmpty(RecordOf(members.id).spouse))
       /\ IdsOf(members.value.children) = Existing(OrEmpty(RecordOf(members.id).children))
       /\ Range(IdsOf(members.value.parents)) = PartnersOf(OrEmpty(RecordOf(members.id).parents))

(* the members of an individual whose parent family names a husband without *)
(* a record, and who names a parent family without a record                 *)
C5_Witness ==
  /\ members.called
  /\ Exists(members.id)
  /\ \E k \in 1..Len(Fams) :
       /\ Includes(OrEmpty(RecordOf(members.id).parents), Fams[k].id)
       /\ Truthy(Fams[k].husband) /\ ~Exists(Get(Fams[k].husband))
       /\ Truthy(Fams[k].wife) /\ Exists(Get(Fams[k].wife))
  /\ \E k \in 1..Len(OrEmpty(RecordOf(members.id).parents)) :
       \A j \in 1..Len(Fams) : Fams[j].id # Get(RecordOf(members.id).parents)[k]
  /\ Len(members.value.parents) = 1

(* the values of DateValues that are a date in one of the accepted shapes:  *)
(* day month year, month year, year, day month (of the current year), month *)
(* day, year.  ABT 1850 has no such shape, 31 FEB 1900 and 29 FEB (of 2025) *)
(* are no days                                                              *)
AcceptedDates ==
  {<<"5", " ", "J", "A", "N", " ", "1", "8", "5", "0">>,
   <<"J", "A", "N", " ", "1", "8", "5", "0">>,
   <<"1", "8", "5", "0">>,
   <<"5", " ", "J", "A", "N">>,
   <<"J", "a", "n", " ", "5", ",", " ", "1", "8", "5", "0">>,
   <<"1", " ", "j", "a", "n", " ", "2", "0", "3", "0">>,
   <<"J", "a", "n", " ", "0", "5", ",", " ", "1", "8", "5", "0">>}

(* the DATE value of the lines of an event, <<>> when there is none *)
DateOf(eventLines) ==
  IF Len(eventLines) = 2 /\ Len(eventLines[2]) > 7 THEN From(eventLines[2], 8) ELSE <<>>

(* what C8 says of an individual with the birth lines b and death lines d *)
AgeAsClaimed(ind, b, d) ==
  /\ Has(ind.age) <=> /\ DateOf(b) \in AcceptedDates
                      /\ DateOf(d) = <<>> \/ DateOf(d) \in AcceptedDates
  /\ (DateOf(b) # <<>> /\ DateOf(b) \notin AcceptedDates) =>
       /\ Get(ind.birth).date = Some(DateOf(b))
       /\ ind.age = None
  /\ (DateOf(d) # <<>> /\ DateOf(d) \notin AcceptedDates) =>
       /\ Get(ind.death).date = Some(DateOf(d))
       /\ ind.age = None

(* C8: after a parse the age of an individual is defined exactly when its   *)
(* birth date is written in an accepted shape and its death date is absent  *)
(* or written in an accepted shape too; a DATE value of no accepted shape   *)
(* is stored as it was written and leaves the age undefined, not zero.      *)
C8_AgeDefinedIffDatesParse ==
  Done =>
    /\ \A b \in EventLines(BIRT), d \in EventLines(DEAT) :
         lines = <<RecordLine(I1, INDI)>> \o b \o d =>
           Len(Inds) = 1 /\ AgeAsClaimed(Inds[1], b, d)
    /\ \A k \in 1..Len(Inds) : Has(Inds[k].age) => Truthy(EventDate(Inds[k].birth))

(* a birth in an accepted shape with a death of no accepted shape: the      *)
(* death date is kept as written and there is no age                        *)
C8_Witness ==
  /\ Done
  /\ Len(Inds) = 1
  /\ EventDate(Inds[1].birth) = Some(<<"J", "a", "n", " ", "0", "1", ",", " ", "1", "8", "5", "0">>)
  /\ EventDate(Inds[1].death) = Some(<<"A", "B", "T", " ", "1", "8", "5", "0">>)
  /\ Inds[1].age = None

(* the positions of the slashes of a NAME value *)
Slashes(v) == {q \in 1..Len(v) : v[q] = "/"}

(* the smallest position of a non-empty set of positions *)
Lowest(S) == CHOOSE q \in S : \A r \in S : q <= r

(* the name C9 gives a NAME value v that is not empty *)
NameAsClaimed(v) ==
  IF Cardinality(Slashes(v)) >= 2
  THEN [fullName |-> Trim(Trim(SubSeq(v, 1, Lowest(Slashes(v)) - 1)) \o <<" ">>
                          \o Trim(SubSeq(v, Lowest(Slashes(v)) + 1,
                                         Lowest(Slashes(v) \ {Lowest(Slashes(v))}) - 1))),
        given |-> Some(Trim(SubSeq(v, 1, Lowest(Slashes(v)) - 1))),
        surname |-> Some(Trim(SubSeq(v, Lowest(Slashes(v)) + 1,
                                     Lowest(Slashes(v) \ {Lowest(Slashes(v))}) - 1)))]
  ELSE [fullName |-> Trim(v), given |-> None, surname |-> None]

JohnSmith ==
  [fullName |-> <<"J", "o", "h", "n", " ", "S", "m", "i", "t", "h">>,
   given |-> Some(<<"J", "o", "h", "n">>),
   surname |-> Some(<<"S", "m", "i", "t", "h">>)]

(* C9: a NAME value "Given /Surname/" gives given = the trimmed text before *)
(* the first slash, surname = the trimmed text between the first two        *)
(* slashes and fullName = given, a space, surname, trimmed; a NAME value    *)
(* without two slashes gives fullName = the trimmed value and neither given *)
(* nor surname; the lines "0 @I1@ INDI", "1 NAME John /Smith/" give one     *)
(* individual named John Smith, given John, surname Smith.                  *)
C9_NameExtraction ==
  Done =>
    /\ \A v \in NameValues :
         lines = <<RecordLine(I1, INDI), ValueLine("1", NAME, v)>> =>
           Len(Inds) = 1 /\ Inds[1].name = NameAsClaimed(Trim(v))
    /\ lines = <<RecordLine(I1, INDI),
                 <<"1", " ", "N", "A", "M", "E", " ", "J", "o", "h", "n", " ", "/",
                   "S", "m", "i", "t", "h", "/">>>> =>
         Len(Inds) = 1 /\ Inds[1].id = I1 /\ Inds[1].name = JohnSmith

(* the two lines of the claim have been parsed *)
C9_Witness ==
  /\ Done
  /\ Len(lines) = 2
  /\ lines[2] = ValueLine("1", NAME, <<"J", "o", "h", "n", " ", "/", "S", "m", "i", "t", "h", "/">>)
  /\ Len(Inds) = 1
  /\ Inds[1].name = JohnSmith

(* C11: after a parse the children of every family are the ids of its CHIL  *)
(* lines in the order of the lines, each id once: no id occurs twice in the *)
(* children of a family.                                                    *)
C11_FamilyChildrenDeduplicated ==
  Done => \A k \in 1..Len(Fams) : Distinct(Fams[k].children)

(* a record line written tag first, rewritten pointer first *)
PointerFirst(line) ==
  IF line = TagFirstLine(I1, INDI) THEN RecordLine(I1, INDI)
  ELSE IF line = TagFirstLine(FamilyId(1), FAM) THEN RecordLine(FamilyId(1), FAM)
  ELSE line

PointerFirstText ==
  StringValue(Join([k \in 1..Len(lines) |-> PointerFirst(lines[k])], <<"\n">>))

(* C12: a record line with the tag first and the id in the next field       *)
(* ("0 INDI @I1@", "0 FAM @F1@") starts the same record, with the same id,  *)
(* as the line with the pointer first ("0 @I1@ INDI", "0 @F1@ FAM"): the    *)
(* data a parse returns equals the data returned for the text with the      *)
(* record lines written pointer first.                                      *)
C12_OrderingsEquivalent ==
  (JustReturned /\ StringInput) => result.data = parseGedcomFile(PointerFirstText, today)

(* the DATE values that are partial dates: a year, a month and a year, a    *)
(* day and a month                                                          *)
PartialDates ==
  {<<"1", "8", "5", "0">>,
   <<"J", "A", "N", " ", "1", "8", "5", "0">>,
   <<"5", " ", "J", "A", "N">>}

(* C13: a partial date comes back as the text it was given as: when the     *)
(* DATE value of an event is a partial date such as 1850, the date stored   *)
(* on the event is that text.                                               *)
C13_PartialDatesRoundTrip ==
  Done =>
    \A v \in PartialDates :
      lines = <<RecordLine(I1, INDI), TagLine("1", BIRT), ValueLine("2", DATE, v)>> =>
        Len(Inds) = 1 /\ EventDate(Inds[1].birth) = Some(v)

(* C14: after a parse the sex of every individual is absent or one of the   *)
(* two values M and F.                                                      *)
C14_SexIsEnum ==
  Done => \A k \in 1..Len(Inds) : Inds[k].sex \in {None, Some(<<"M">>), Some(<<"F">>)}

(* the number of nodes of a tree *)
RECURSIVE SumNodes(_, _)
RECURSIVE NodeCount(_)
NodeCount(node) == 1 + SumNodes(OrEmpty(node.children), 1)

SumNodes(nodes, k) ==
  IF k > Len(nodes) THEN 0 ELSE NodeCount(nodes[k]) + SumNodes(nodes, k + 1)

(* C15: the tree projected from a root has at most 4 nodes (couple, person, *)
(* spouse, family-unit connector) per individual of the dataset, cyclic     *)
(* datasets and datasets with shared descendants included.                  *)
C15_NodeCountBounded ==
  tpc = "built" => NodeCount(Get(tree)) <= 4 * Len(Inds)

(* the relationships of the children of a node *)
ChildKinds(node) ==
  [k \in 1..Len(OrEmpty(node.children)) |-> OrEmpty(node.children)[k].relationship]

(* the ids of the spouses of the individual at position k that have a record *)
SpousesOf(k) == Existing(OrEmpty(Inds[k].spouse))

(* the position of the individual a couple node or a direct node expands *)
ExpandedAt(node) ==
  IF node.relationship = "couple" THEN Get(Get(node.children)[1].individualData)
  ELSE Get(node.individualData)

(* a couple node shows the first spouse that has a record, which is not on  *)
(* the path; a direct node shows no spouse, and has no spouse with a record *)
(* or its first such spouse is on the path                                  *)
SpouseShown(node, path) ==
  IF node.relationship = "couple"
  THEN /\ ChildKinds(node) = <<"direct", "spouse", "family-unit">>
       /\ SpousesOf(ExpandedAt(node)) # <<>>
       /\ Inds[Get(Get(node.children)[2].individualData)].id = SpousesOf(ExpandedAt(node))[1]
       /\ SpousesOf(ExpandedAt(node))[1] \notin path \cup {Inds[ExpandedAt(node)].id}
  ELSE /\ node.relationship = "direct"
       /\ ~Includes(ChildKinds(node), "spouse")
       /\ \/ SpousesOf(ExpandedAt(node)) = <<>>
          \/ SpousesOf(ExpandedAt(node))[1] \in path \cup {Inds[ExpandedAt(node)].id}

(* SpouseShown for the node of every expansion below and at node *)
RECURSIVE SpousesShown(_, _)
SpousesShown(node, path) ==
  /\ SpouseShown(node, path)
  /\ \A k \in 1..Len(Descent(node)) :
       SpousesShown(Descent(node)[k], path \cup {Inds[ExpandedAt(node)].id})

(* C16: the projection shows at most one spouse per expanded individual,    *)
(* the first entry of its spouse list that has a record: each couple node   *)
(* holds that spouse, and an individual whose first spouse is already on    *)
(* the visited path is shown without a spouse, whatever later spouses it    *)
(* has.                                                                     *)
C16_FirstSpouseOnly ==
  tpc = "built" => SpousesShown(Get(tree), {})

(* some expansion at or below node is a direct node of an individual whose  *)
(* first spouse is on the path and who has a later spouse that is not       *)
RECURSIVE LaterSpouseLeftOut(_, _)
LaterSpouseLeftOut(node, path) ==
  \/ /\ node.relationship = "direct"
     /\ Len(SpousesOf(ExpandedAt(node))) >= 2
     /\ SpousesOf(ExpandedAt(node))[1] \in path
     /\ SpousesOf(ExpandedAt(node))[2] \notin path \cup {Inds[ExpandedAt(node)].id}
  \/ \E k \in 1..Len(Descent(node)) :
       LaterSpouseLeftOut(Descent(node)[k], path \cup {Inds[ExpandedAt(node)].id})

C16_Witness == tpc = "built" /\ LaterSpouseLeftOut(Get(tree), {})

(* the individual at position k has the id among its children *)
IsChildOf(id, k) == Includes(OrEmpty(Inds[k].children), id)

(* under the connector of a couple node stand children of both the expanded *)
(* individual and the spouse shown, and its person node has no children     *)
SharedChildren(node) ==
  node.relationship = "couple" =>
    /\ Get(node.children)[1].children = Some(<<>>)
    /\ \A k \in 1..Len(Descent(node)) :
         /\ IsChildOf(Inds[ExpandedAt(Descent(node)[k])].id, ExpandedAt(node))
         /\ IsChildOf(Inds[ExpandedAt(Descent(node)[k])].id,
                      Get(Get(node.children)[2].individualData))

RECURSIVE AllSharedChildren(_)
AllSharedChildren(node) ==
  /\ SharedChildren(node)
  /\ \A k \in 1..Len(Descent(node)) : AllSharedChildren(Descent(node)[k])

(* C17: where the projection shows an individual with a spouse, the         *)
(* family-unit connector holds the children the two have together: every    *)
(* subtree under the connector is rooted at a child of both the expanded    *)
(* individual and the spouse shown, and the person node of the expanded     *)
(* individual has no children of its own.                                   *)
C17_ConnectorAnchorsSharedChildren ==
  tpc = "built" => AllSharedChildren(Get(tree))

(* the positions of the individuals that name no parent family *)
Parentless == {k \in 1..Len(Inds) : OrEmpty(Inds[k].parents) = <<>>}

(* the full tree over several roots: a virtual root "Family Tree" whose     *)
(* children are the projections of exactly the parentless individuals, each *)
(* one the projection of its root alone                                     *)
OverSeveralRoots(full) ==
  /\ full = VirtualRoot(Get(full.children))
  /\ Len(Get(full.children)) = Cardinality(Parentless)
  /\ {ExpandedAt(Get(full.children)[j]) : j \in 1..Len(Get(full.children))} = Parentless
  /\ \A j \in 1..Len(Get(full.children)) :
       Some(Get(full.children)[j])
         = convertToTreeData(Inds, ExpandedAt(Get(full.children)[j]), {})

(* C18: buildFullFamilyTree takes as roots the individuals with no parent   *)
(* family and projects each with an empty visited set of its own: with more *)
(* than one root the result is a virtual root over the projections, each    *)
(* equal to the projection of that root alone; with one root it is that     *)
(* projection; with none in a non-empty dataset it is the projection of the *)
(* first individual; for an empty dataset it is the default tree. The       *)
(* projection of a root alone is what the call sequence of convertToTreeData *)
(* returns for it                                                           *)
C18_FullTreeFromRoots ==
  /\ Has(fullTree) =>
       IF Len(Inds) = 0 THEN Get(fullTree) = DefaultTree
       ELSE IF Cardinality(Parentless) > 1 THEN OverSeveralRoots(Get(fullTree))
       ELSE IF Cardinality(Parentless) = 1
         THEN \A k \in Parentless : fullTree = convertToTreeData(Inds, k, {})
       ELSE fullTree = convertToTreeData(Inds, 1, {})
  /\ (tpc = "built" /\ Has(tree)) =>
       tree = convertToTreeData(Inds, ExpandedAt(Get(tree)), {})

(* a full tree over several roots, one of them a couple with children, in a *)
(* dataset that also has an individual with a parent family                 *)
C18_Witness ==
  /\ Has(fullTree)
  /\ Cardinality(Parentless) > 1
  /\ Cardinality(Parentless) < Len(Inds)
  /\ Get(fullTree).relationship = "family-unit"
  /\ \E j \in 1..Len(Get(Get(fullTree).children)) :
       Get(Get(fullTree).children)[j].relationship = "couple"

(* the full tree of a non-empty dataset in which every individual has a     *)
(* parent family is the projection of the first individual                  *)
C18_WitnessNoRoot ==
  /\ Has(fullTree)
  /\ Len(Inds) > 1
  /\ Parentless = {}
  /\ Get(fullTree).relationship = "direct"

(* a line that starts a record, and one that starts a family record *)
RecordStart(rawLine) == Kept(rawLine) /\ MatchLine(Trim(rawLine)).level = 0

FamStart(rawLine) ==
  /\ RecordStart(rawLine)
  /\ \E m \in {MatchLine(Trim(rawLine))} :
       Len(LevelZero(InitAsm, m.pointer, m.tag, m.value).families) = 1

(* the positions in ls of the lines that satisfy Test, in order *)
Where(ls, Test(_)) ==
  LET At(k) == Test(ls[k]) IN SelectSeq(Positions(ls, 1), At)

OtherStart(rawLine) == RecordStart(rawLine) /\ ~FamStart(rawLine)

(* the record that starts at line k: the lines up to the next record *)
RecordAt(ls, k) ==
  SubSeq(ls, k, Lowest({j \in (k + 1)..Len(ls) : RecordStart(ls[j])} \cup {Len(ls) + 1}) - 1)

(* the lines before the first record *)
Preamble(ls) ==
  SubSeq(ls, 1, Lowest({j \in 1..Len(ls) : RecordStart(ls[j])} \cup {Len(ls) + 1}) - 1)

RECURSIVE RecordsAt(_, _, _)
RecordsAt(ls, starts, j) ==
  IF j > Len(starts) THEN <<>>
  ELSE RecordAt(ls, starts[j]) \o RecordsAt(ls, starts, j + 1)

(* the family records of ls in the order perm, in the places the family     *)
(* records of ls stand in; all and fams are the positions of the record     *)
(* lines and of the family record lines                                     *)
FamiliesPermuted(ls, all, fams, perm) ==
  RecordsAt(ls, [j \in 1..Len(all) |->
                   IF all[j] \in Range(fams)
                   THEN fams[perm[Cardinality({h \in 1..j : all[h] \in Range(fams)})]]
                   ELSE all[j]], 1)

(* the texts that differ from ls by the order of the family records, and    *)
(* those that have the family records before or after the other records     *)
ReorderingsOf(ls, all, fams, others) ==
  {Preamble(ls) \o FamiliesPermuted(ls, all, fams, perm) :
     perm \in Permutations(1..Len(fams))}
    \cup {Preamble(ls) \o RecordsAt(ls, fams, 1) \o RecordsAt(ls, others, 1),
          Preamble(ls) \o RecordsAt(ls, others, 1) \o RecordsAt(ls, fams, 1)}

Reorderings(ls) ==
  ReorderingsOf(ls, Where(ls, RecordStart), Where(ls, FamStart), Where(ls, OtherStart))

(* the individuals a parse returns for the text with the lines ls *)
IndividualsOf(ls) == Finish(FoldLines(InitAsm, ls, 1, today), today).individuals

(* the same individuals with the same sets of spouse ids and children ids *)
SameLinks(a, b) ==
  /\ Len(a) = Len(b)
  /\ \A k \in 1..Len(a) :
       /\ a[k].id = b[k].id
       /\ Range(OrEmpty(a[k].spouse)) = Range(OrEmpty(b[k].spouse))
       /\ Range(OrEmpty(a[k].children)) = Range(OrEmpty(b[k].children))

(* C19: the links do not depend on the order of the records: a text whose   *)
(* family records are permuted, or stand before or after the individual     *)
(* records, gives every individual the same set of spouse ids and the same  *)
(* set of children ids; linking a family a second time adds nothing.        *)
C19_LinkingOrderIndependent ==
  (JustReturned /\ fullTree = None /\ StringInput) =>
    /\ \A ls \in Reorderings(lines) \ {lines} : SameLinks(Inds, IndividualsOf(ls))
    /\ \A k \in 1..Len(Fams) : LinkFamily(Inds, Fams[k]) = Inds

(* an individual with two spouses, from two families, whose spouse list     *)
(* comes in another order when the family records are reordered             *)
C19_Witness ==
  /\ JustReturned
  /\ StringInput
  /\ Len(Fams) >= 2
  /\ \E ls \in Reorderings(lines) : \E k \in 1..Len(Inds) :
       /\ Cardinality(Range(OrEmpty(Inds[k].spouse))) >= 2
       /\ Len(IndividualsOf(ls)) = Len(Inds)
       /\ IndividualsOf(ls)[k].spouse # Inds[k].spouse

(* the two calls have returned *)
BothReturned == Done /\ Has(previous)

AtKeptLine == pc = "loop" /\ i <= Len(lines) /\ Kept(lines[i])

(* C26: a level-0 line whose tag is neither INDI nor FAM creates no         *)
(* Individual and no Family and leaves no current record, and with no       *)
(* current record a line of level 1 or deeper changes nothing.              *)
C26_OtherTagIsNoRecord ==
  AtKeptLine =>
    \A m \in {MatchLine(Trim(lines[i]))} : \A st \in {ProcessLine(Asm, lines[i], today)} :
      /\ (m.level = 0 /\ m.tag \notin {INDI, FAM}) =>
           /\ st.individuals = individuals
           /\ st.families = families
           /\ st.currentRecord = NullRecord
      /\ (m.level >= 1 /\ currentRecord = NullRecord) => st = Asm

Highest(S) == CHOOSE x \in S : \A y \in S : y <= x

(* the lines read so far that are of level 0 or 1 *)
OpenerLines ==
  {j \in 1..(i - 1) : Kept(lines[j]) /\ MatchLine(Trim(lines[j])).level <= 1}

(* the event a level-1 line with this tag opens in the current record *)
EventOpenedBy(tag) ==
  IF currentRecord = NullRecord THEN "null"
  ELSE IF currentRecord.arr = "individuals" /\ tag = BIRT THEN "birth"
  ELSE IF currentRecord.arr = "individuals" /\ tag = DEAT THEN "death"
  ELSE IF currentRecord.arr = "individuals" /\ tag = BURI THEN "burial"
  ELSE IF currentRecord.arr = "families" /\ tag = MARR THEN "marriage"
  ELSE "null"

(* the event the most recent line of level 0 or 1 has left open *)
OpenedEvent ==
  IF OpenerLines = {} THEN "null"
  ELSE IF MatchLine(Trim(lines[Highest(OpenerLines)])).level = 0 THEN "null"
  ELSE EventOpenedBy(MatchLine(Trim(lines[Highest(OpenerLines)])).tag)

(* st is Asm but for the field of the open event that the tag names *)
OnlyEventChanged(st, tag, value) ==
  /\ st = [Asm EXCEPT ![currentRecord.arr][currentRecord.idx][OpenedEvent] =
                        st[currentRecord.arr][currentRecord.idx][OpenedEvent]]
  /\ Has(Asm[currentRecord.arr][currentRecord.idx][OpenedEvent])
  /\ Has(st[currentRecord.arr][currentRecord.idx][OpenedEvent])
  /\ Get(st[currentRecord.arr][currentRecord.idx][OpenedEvent]) =
       IF tag = DATE
       THEN [Get(Asm[currentRecord.arr][currentRecord.idx][OpenedEvent])
               EXCEPT !.date = formatDate(value, today)]
       ELSE [Get(Asm[currentRecord.arr][currentRecord.idx][OpenedEvent])
               EXCEPT !.place = Some(value)]

(* C27: the sub-event is the one opened by the most recent level-1 line of  *)
(* the current record, and only BIRT, DEAT, BURI in an Individual and MARR  *)
(* in a Family open one; every other level-1 tag and every level-0 line     *)
(* clears it. A level-2 DATE or PLAC line changes the date or the place of  *)
(* the open event and nothing else, and changes nothing when no event is    *)
(* open.                                                                    *)
C27_SubEventScoping ==
  /\ pc = "loop" => currentEvent = OpenedEvent
  /\ AtKeptLine =>
       \A m \in {MatchLine(Trim(lines[i]))} : \A st \in {ProcessLine(Asm, lines[i], today)} :
         (m.level = 2 /\ m.tag \in {DATE, PLAC}) =>
           IF OpenedEvent = "null" THEN st = Asm
           ELSE OnlyEventChanged(st, m.tag, m.value)

(* a DATE line is about to be read in an individual that has a death event, *)
(* after a level-1 line that opens no event: the date is not recorded       *)
C27_Witness ==
  /\ AtKeptLine
  /\ MatchLine(Trim(lines[i])).level = 2
  /\ MatchLine(Trim(lines[i])).tag = DATE
  /\ currentRecord.arr = "individuals"
  /\ Has(individuals[currentRecord.idx].death)
  /\ MatchLine(Trim(lines[i - 1])).level = 1
  /\ OpenedEvent = "null"
  /\ ProcessLine(Asm, lines[i], today) = Asm

(* the other partners of id in the families that name it *)
OtherPartners(id) ==
  UNION {(IF Fams[j].husband = Some(id) THEN Range(Fams[j].wife) ELSE {})
           \cup (IF Fams[j].wife = Some(id) THEN Range(Fams[j].husband) ELSE {}) :
         j \in FamiliesOf(id)}

(* the lists of the individual at position k are those of the families that *)
(* name its id, or absent when no family does                               *)
LinkedFromFamilies(k) ==
  IF FamiliesOf(Inds[k].id) = {}
  THEN ~Has(Inds[k].spouse) /\ ~Has(Inds[k].children)
  ELSE /\ Has(Inds[k].spouse)
       /\ Has(Inds[k].children)
       /\ Distinct(Get(Inds[k].spouse))
       /\ Distinct(Get(Inds[k].children))
       /\ Range(Get(Inds[k].spouse)) = OtherPartners(Inds[k].id)
       /\ Range(Get(Inds[k].children))
            = UNION {Range(Fams[j].children) : j \in FamiliesOf(Inds[k].id)}

(* C28: after a parse, the children of every Individual are the             *)
(* duplicate-free union of the child ids of the Families that name it as    *)
(* husband or wife, its spouse list is the duplicate-free list of the other *)
(* partners of those Families, and an Individual that no Family names has   *)
(* neither list, whatever FAMS and FAMC lines its record has.               *)
C28_LinkedFromFamiliesOnly ==
  (Done /\ StringInput) => \A k \in 1..Len(Inds) : LinkedFromFamilies(k)

(* every subtree below node is the projection of its own individual from    *)
(* the ids on the path to it, path being the ids above node                 *)
RECURSIVE SubtreesFromPath(_, _)
SubtreesFromPath(node, path) ==
  \A k \in 1..Len(Descent(node)) :
    /\ Some(Descent(node)[k])
         = convertToTreeData(Inds, ExpandedAt(Descent(node)[k]),
                             path \cup {Inds[ExpandedAt(node)].id})
    /\ SubtreesFromPath(Descent(node)[k], path \cup {Inds[ExpandedAt(node)].id})

(* C25: the visited set is local to a fork: the set of an active call holds *)
(* the ids on the path from the root to it and nothing a sibling's subtree  *)
(* expanded; the nodes a call has collected are the projections of its      *)
(* children from that path; and in the returned tree every subtree is the   *)
(* projection of its individual from the ids on its path, whatever its      *)
(* siblings are.                                                            *)
C25_VisitedIsForkLocal ==
  /\ \A k \in 1..Len(stack) :
       /\ stack[k].visited = {StackIds[j] : j \in 1..k}
       /\ stack[k].childNodes
            = ProjectChildren(Inds, SubSeq(stack[k].children, 1, stack[k].k - 1), 1,
                              stack[k].visited)
  /\ (tpc = "built" /\ Has(tree)) => SubtreesFromPath(Get(tree), {})

(* a returned tree in which two sibling subtrees expand the same individual *)
C25_Witness ==
  /\ tpc = "built"
  /\ Has(tree)
  /\ \E a, b \in 1..Len(Descent(Get(tree))) :
       /\ a # b
       /\ \E p \in DescentPaths(Descent(Get(tree))[a]) :
            \E q \in DescentPaths(Descent(Get(tree))[b]) :
              \E x \in Range(p) : x \in Range(q)

(* a text all of whose lines the parser skips *)
Garbage(text) == \A k \in 1..Len(SplitLines(text)) : SkippedLine(SplitLines(text)[k])

(* C21: once a load of useFamilyData has run (the effect, refresh, clear or *)
(* an upload), loading is false and error is null for any stored text, so   *)
(* HomePage never shows the error screen; data is the parse result when the *)
(* stored text is not empty, the empty dataset when the parser skips all    *)
(* its lines, and null when nothing is stored; after clear nothing is       *)
(* stored and data is null.                                                 *)
C21_NoErrorScreen ==
  hookCall # "none" =>
    /\ ~hook.loading
    /\ hook.error = None
    /\ Screen(hook) \in {"upload", "list"}
    /\ (Has(storage.item) /\ Get(storage.item) # <<>>) =>
         /\ hook.data = Some(parseGedcomFile(StringValue(Get(storage.item)), today))
         /\ Garbage(Get(storage.item)) => hook.data = Some(EmptyData)
    /\ ~Has(storage.item) => hook.data = None
    /\ hookCall = "clear" => (~Has(storage.item) /\ hook.data = None)

(* a text the parser skips entirely was uploaded: the list screen shows an  *)
(* empty dataset                                                            *)
C21_Witness ==
  /\ hookCall = "upload"
  /\ Has(storage.item)
  /\ Get(storage.item) # <<>>
  /\ Garbage(Get(storage.item))
  /\ hook = [data |-> Some(EmptyData), loading |-> FALSE, error |-> None]
  /\ Screen(hook) = "list"

(* the keys of a cache *)
KeysOf(cache) == {cache[k].key : k \in 1..Len(cache)}

(* the positions of the list for which the call sent a request answered     *)
(* with one of kinds                                                        *)
RequestedAt(rec, kinds) ==
  {rec.requests[j].at : j \in {j \in 1..Len(rec.requests) : rec.requests[j].kind \in kinds}}

(* C22: in the browser, once the service has answered a request of the      *)
(* batch with 401 the call has thrown 'Unauthorized API key...': that       *)
(* request is its last, the failing place is still the current one, the     *)
(* progress reports are those of the places before it, the failing place is *)
(* not in failed, and the cache holds a key for every earlier place the     *)
(* call stored.                                                             *)
C22_AbortsOn401 ==
  \A r \in DOMAIN runs :
    (runs[r].side = "client" /\ RequestedAt(runs[r], {"unauthorized"}) # {}) =>
      /\ runs[r].pc = "threw"
      /\ runs[r].error = Some("Unauthorized API key. Please check your API key.")
      /\ runs[r].requests[Len(runs[r].requests)] =
           [at |-> runs[r].k, spaced |-> runs[r].requests[Len(runs[r].requests)].spaced,
            kind |-> "unauthorized"]
      /\ RequestedAt(runs[r], {"unauthorized"}) = {runs[r].k}
      /\ runs[r].progress = [j \in 1..(runs[r].k - 1) |-> <<j, Len(runs[r].places)>>]
      /\ Len(runs[r].failed) + runs[r].success = runs[r].k - 1
      /\ \A j \in runs[r].stored :
           /\ j < runs[r].k
           /\ Trim(ToLower(runs[r].places[j])) \in KeysOf(geoCache)

(* a browser call threw on 401 after it had stored a place and while places *)
(* were left                                                                *)
C22_Witness ==
  \E r \in DOMAIN runs :
    /\ runs[r].side = "client"
    /\ runs[r].pc = "threw"
    /\ runs[r].stored # {}
    /\ runs[r].k < Len(runs[r].places)
    /\ Len(geoCache) > 0

(* C23: a place whose request failed (an empty answer or an error) and that *)
(* is in the failed list has been requested at least twice by the call.     *)
C23_FailedWereRetried ==
  \A r \in DOMAIN runs :
    \A at \in RequestedAt(runs[r], {"empty", "error"}) :
      Cardinality({j \in 1..Len(runs[r].requests) : runs[r].requests[j].at = at}) >= 2

(* C24: within a call, every request after the first is sent after the 100  *)
(* ms timer that followed the request before it has fired; the place after  *)
(* a requested place is processed only after the timer; a place answered    *)
(* from the cache is not requested.                                         *)
C24_RateLimited ==
  \A r \in DOMAIN runs :
    /\ \A j \in 2..Len(runs[r].requests) : runs[r].requests[j].spaced
    /\ (/\ runs[r].pc = "top"
        /\ (runs[r].k - 1) \in RequestedAt(runs[r], {"found", "empty", "error", "unauthorized"}))
         => runs[r].waited
    /\ runs[r].hits \cap RequestedAt(runs[r], {"found", "empty", "error", "unauthorized"}) = {}

(* the places at the positions from k on that are not in counted, in order *)
RECURSIVE Uncounted(_, _, _)
Uncounted(places, counted, k) ==
  IF k > Len(places) THEN <<>>
  ELSE (IF k \in counted THEN <<>> ELSE <<places[k]>>) \o Uncounted(places, counted, k + 1)

(* C29: when batchGeocode has returned, success is the number of positions  *)
(* answered from the cache or stored from the API, no position is both,     *)
(* failed lists the places at the other positions in input order, so        *)
(* success + length(failed) = length(places), and onProgress was called     *)
(* once per place, in order, with (i + 1, total).                           *)
C29_BatchAccounting ==
  \A r \in DOMAIN runs :
    runs[r].pc = "returned" =>
      /\ runs[r].success + Len(runs[r].failed) = Len(runs[r].places)
      /\ runs[r].hits \cap runs[r].stored = {}
      /\ runs[r].success = Cardinality(runs[r].hits \cup runs[r].stored)
      /\ runs[r].failed = Uncounted(runs[r].places, runs[r].hits \cup runs[r].stored, 1)
      /\ runs[r].progress = [j \in 1..Len(runs[r].places) |-> <<j, Len(runs[r].places)>>]

(* a call returned with a place from the cache, a place stored and a place  *)
(* failed                                                                   *)
C29_Witness ==
  \E r \in DOMAIN runs :
    /\ runs[r].pc = "returned"
    /\ runs[r].hits # {}
    /\ runs[r].stored # {}
    /\ runs[r].failed # <<>>

(* C30: once the two calls on the server have ended, the cache file holds a *)
(* key for every place either call stored.                                  *)
C30_NoLostUpdate ==
  (\A r \in DOMAIN runs : runs[r].pc \in {"returned", "rejected"}) =>
    \A r \in DOMAIN runs : \A j \in runs[r].stored :
      Trim(ToLower(runs[r].places[j])) \in KeysOf(geoCache)

============================================================================
